---- MODULE Spec2Model ----
(***************************************************************************)
(* A model of the kib movie backend: the rating service and the movie      *)
(* rating-statistics rollup, the user service (registration, credential    *)
(* validation), the TMDB client's retry policy and the TMDB sync job.      *)
(*                                                                         *)
(* Every repository call (a promise wrapped by from()) is one step: calls  *)
(* of different requests interleave between those steps.  Rating values    *)
(* and averages are counted in tenths (8.5 is 85), the unit of the         *)
(* columns' scale.                                                         *)
(***************************************************************************)
EXTENDS Integers, Sequences, FiniteSets, TLC

(***************************************************************************)
(* Bounds of the model.                                                    *)
(***************************************************************************)
MaxCalls == 2          \* service calls in flight at once
MaxRatingId == 2       \* rating ids the sequence hands out
MaxUserId == 2         \* user ids the sequence hands out
MaxMovieId == 3        \* movie ids the sequence hands out
MaxRequests == 2       \* TMDB requests in flight at once
MaxTicks == 2          \* cron ticks

(***************************************************************************)
(* Identifiers and request inputs.                                         *)
(***************************************************************************)
Calls == 1..MaxCalls
RatingIds == 1..MaxRatingId
UserIds == 1..(MaxUserId + 1)   \* the last one is the id of no stored user
MovieIds == 1..MaxMovieId
RatedMovie == 1                 \* the movie the rating requests are about
MissingMovie == MaxMovieId      \* in those requests, the id of no stored movie
Raters == {1, 2}                \* the users that send rating requests

NoRating == 0               \* updateRatingDto.rating === undefined
Undefined == "<undefined>"  \* an optional string that is not given
NullText == "<null>"        \* a NULL text column

\* CreateRatingDto.rating: @Min(0.5) @Max(10), in tenths.
RatingInputs == {5, 80, 100}
\* CreateRatingDto.review: optional, any string of at most 1000 characters.
ReviewInputs == {Undefined, "", "fine"}
\* The createOrUpdate$ requests <<userId, movieId, rating, review>>: ratings of
\* movie 1 by both raters, and one request each for a missing movie, a missing
\* user and both.
MissingRequests ==
    {<<1, MissingMovie, 80, Undefined>>, <<MaxUserId + 1, RatedMovie, 80, Undefined>>,
     <<MaxUserId + 1, MissingMovie, 80, Undefined>>}
CreateRequests ==
    {<<u, RatedMovie, r, Undefined>> : u \in Raters, r \in {5, 80}} \cup MissingRequests
\* The UpdateRatingDto values <<rating, review>>: both fields are optional.
UpdateDtos == {<<5, Undefined>>, <<80, Undefined>>}
\* The requests of the one-call-at-a-time specification: every rating and review.
AllCreateRequests ==
    {<<u, RatedMovie, r, rv>> : u \in Raters, r \in RatingInputs, rv \in ReviewInputs}
        \cup MissingRequests
AllUpdateDtos ==
    {<<r, rv>> : r \in {NoRating, 5, 80, 100}, rv \in ReviewInputs}

(***************************************************************************)
(* Column types of the entities.                                           *)
(***************************************************************************)
RatingPrecision == 2   \* Rating.rating: decimal(2,1)

RECURSIVE Pow10(_)
Pow10(n) == IF n = 0 THEN 1 ELSE 10 * Pow10(n - 1)

\* A decimal(2,1) column holds fewer than 10^2 tenths; the store rejects
\* anything else (numeric field overflow).
RatingFitsColumn(v) == v < Pow10(RatingPrecision)

\* Movie.userRatingAverage is decimal(3,1): the store rounds the average
\* sum/count (in tenths) to a whole number of tenths, half away from zero.
RoundToScale(sum, count) == (2 * sum + count) \div (2 * count)

NullAverage == -1      \* userRatingAverage is nullable and has no default

VARIABLES
    users,          \* users table: id -> row
    nextUserId,     \* the users id sequence
    movies,         \* movies table: id -> row
    ratings,        \* ratings table: id -> row
    nextRatingId,   \* the ratings id sequence
    calls,          \* RatingsService calls: slot -> the call's position and locals
    reply,          \* the call that the step just taken completed, if any
    ucalls,         \* UsersService calls: slot -> the call's position and locals
    ureply          \* the UsersService call that the step just taken completed

VARIABLES
    requests,       \* TmdbService requests: slot -> the request's position and history
    nextMovieId,    \* the movies id sequence
    boot,           \* TmdbSyncService.onModuleInit: where application startup is
    syncs,          \* the observables the sync methods returned: id -> position
    cronTicks       \* the hourly cron ticks so far

VARIABLES
    mcalls,    \* MoviesService calls: slot -> the call's position and locals
    mreply    \* the MoviesService call that the step just taken completed

VARIABLES
    watchlist,    \* user_watchlist: the movies each user has on the watchlist
    favorites    \* user_favorites: the movies each user has as favorites

VARIABLES
    stats,    \* the result of the last getMovieRatingStats$
    scan    \* the pages of a search read so far

VARIABLES
    cache,    \* the cache store: the cached body of GET /movies/:id per id (id 0: no entry)
    hreply    \* the response to the last HTTP request for a movie

VARIABLES
    merge    \* the mergeMap of the batchRate$ / batchCreate$ under way

vars ==
    <<users, nextUserId, movies, ratings, nextRatingId, calls, reply, ucalls, ureply,
      requests, nextMovieId, boot, syncs, cronTicks,
      mcalls, mreply,
      watchlist, favorites,
      stats, scan,
      cache, hreply,
      merge>>

\* What the actions of one service leave alone.
ratingsFrame == <<nextUserId, ucalls, ureply, requests, nextMovieId, boot, syncs, cronTicks,
      mcalls, mreply,
      watchlist, favorites,
      stats, scan,
      cache, hreply,
      merge>>
usersFrame ==
    <<movies, ratings, nextRatingId, calls, reply, requests, nextMovieId, boot, syncs,
      cronTicks,
      mcalls, mreply,
      watchlist, favorites,
      stats, scan,
      cache, hreply,
      merge>>
tmdbFrame ==
    <<users, nextUserId, movies, ratings, nextRatingId, calls, reply, ucalls, ureply,
      nextMovieId, boot, syncs, cronTicks,
      mcalls, mreply,
      watchlist, favorites,
      stats, scan,
      cache, hreply,
      merge>>
syncFrame ==
    <<users, nextUserId, ratings, nextRatingId, calls, reply, ucalls, ureply, requests,
      mcalls, mreply,
      watchlist, favorites,
      stats, scan,
      cache, hreply,
      merge>>

(***************************************************************************)
(* Passwords.  A password is its text split after a leading "$2b$", if it  *)
(* has one; the password column holds either a bcrypt hash of a password   *)
(* or a password as it was given.                                          *)
(***************************************************************************)
NoPassword == [hashed |-> FALSE, prefix |-> "", rest |-> ""]

\* User.hashPassword (@BeforeInsert, @BeforeUpdate): hash unless the text is
\* empty or starts with "$2b$".
HashPassword(p) ==
    IF p.prefix = "$2b$" \/ (p.prefix = "" /\ p.rest = "")
    THEN [hashed |-> FALSE, prefix |-> p.prefix, rest |-> p.rest]
    ELSE [hashed |-> TRUE, prefix |-> p.prefix, rest |-> p.rest]

\* User.validatePassword: bcrypt.compare(password, this.password) holds of a
\* hash of that password and of nothing else.
ValidatePassword(stored, p) ==
    stored.hashed /\ stored.prefix = p.prefix /\ stored.rest = p.rest

NullRow == [id |-> 0, userId |-> 0, movieId |-> 0, rating |-> 0, review |-> NullText]
NoMovie ==
    [id |-> 0, tmdbId |-> 0, title |-> <<>>, popularity |-> 0,
     userRatingAverage |-> NullAverage, userRatingCount |-> 0]
NoUser ==
    [id |-> 0, username |-> "", email |-> "", password |-> NoPassword, firstName |-> ""]

Idle ==
    [pc |-> "idle", kind |-> "", userId |-> 0, movieId |-> 0, ratingId |-> 0,
     rating |-> NoRating, review |-> Undefined, pending |-> {},
     movie |-> FALSE, user |-> FALSE, existing |-> NullRow, entity |-> NullRow,
     avg |-> 0, cnt |-> 0, res |-> "", alone |-> FALSE, statsInvoked |-> FALSE,
     batch |-> 0, batchSize |-> 0, seq |-> 0, saved |-> NullRow,
     batchDone |-> FALSE, outcomes |-> <<>>, emitted |-> <<>>]

NoReply == Idle

\* A TmdbService request: the outcomes of its HTTP attempts so far (log) and the
\* waits of its retry timers so far (delays, in ms).
IdleRequest == [pc |-> "idle", endpoint |-> "", log |-> <<>>, delays |-> <<>>, res |-> ""]

Requests == 1..MaxRequests

\* A MoviesService.create$ call: the DTO's tmdbId and popularity, and the movie
\* that findOne returned.
IdleMovieCall ==
    [pc |-> "idle", tmdbId |-> 0, popularity |-> 0, existing |-> FALSE, res |-> "",
     alone |-> FALSE, batch |-> 0, batchSize |-> 0, seq |-> 0, saved |-> NoMovie,
     batchDone |-> FALSE, outcomes |-> <<>>, emitted |-> <<>>]

\* The RatingStatsDto of the last getMovieRatingStats$ (average in tenths);
\* before any, movieId is 0.
NoStats == [movieId |-> 0, average |-> 0, count |-> 0, distribution |-> <<>>]

\* A client that reads the pages of search$(query, 1..., limit) in turn: the
\* data of the pages read so far (movie ids) and the total of the last one.
NoScan == [query |-> <<>>, limit |-> 0, pages |-> <<>>, total |-> 0]

\* TmdbSyncService.onModuleInit before it ran: awaits is the observable (its
\* index in syncs) that the method awaits.
NotStarted == [pc |-> "starting", awaits |-> 0]

\* The response to an HTTP request for a movie: its status and body, and
\* whether the cache interceptor answered it from the cache.
NoResponse == [method |-> "", id |-> 0, status |-> 0, body |-> NoMovie, cached |-> FALSE]

\* The mergeMap of a batch: the number of items of the body, the items
\* waiting in mergeMap's buffer, the items whose inner observable is
\* subscribed and not complete, and the items done, in order of completion.
NoBatch ==
    [pc |-> "idle", kind |-> "", items |-> 0, buffer |-> <<>>, active |-> {},
     finished |-> <<>>]

\* The state of every service but the one a specification is about.
IdleElsewhere ==
    /\ requests = [r \in Requests |-> IdleRequest]
    /\ boot = NotStarted
    /\ syncs = <<>>
    /\ cronTicks = 0
    /\ mcalls = [c \in Calls |-> IdleMovieCall]
    /\ mreply = IdleMovieCall
    /\ watchlist = [u \in UserIds |-> {}]
    /\ favorites = [u \in UserIds |-> {}]
    /\ stats = NoStats
    /\ scan = NoScan
    /\ cache = [m \in MovieIds |-> NoMovie]
    /\ hreply = NoResponse
    /\ merge = NoBatch

InFlight(c) == calls[c].pc # "idle"

\* A new call takes the lowest free slot (the slots are interchangeable).
FreeSlot(c) ==
    /\ calls[c].pc = "idle"
    /\ \A d \in Calls : d < c => InFlight(d)

\* The call table after call c started as `call`: c ran alone so far iff no
\* other call is in flight, and no call in flight runs alone any longer.
Started(c, call) ==
    [d \in Calls |->
        IF d = c THEN [call EXCEPT !.alone = \A e \in Calls \ {c} : ~InFlight(e)]
        ELSE IF InFlight(d) THEN [calls[d] EXCEPT !.alone = FALSE]
        ELSE calls[d]]

\* The call ends with `result`.
Done(call, result) == [call EXCEPT !.pc = "done", !.res = result]

Fail(call, error) == Done(call, error)

(***************************************************************************)
(* The items of a batch (batchRate$, batchCreate$): mergeMap over the       *)
(* items, catchError(() => of(null)) on each, toArray and the null filter.  *)
(***************************************************************************)
\* The other calls of the batch that call c of table `table` belongs to.
BatchOthers(table, c) == {d \in Calls \ {c} : table[d].batch # 0}

\* Every other item of the batch has delivered its value.
IsLastOfBatch(table, c) == \A d \in BatchOthers(table, c) : table[d].pc = "collected"

\* An item that is done stays in its slot until the batch completes; seq is
\* its place in the order of completion.
Collected(table, c, call) ==
    [call EXCEPT !.pc = "collected",
                 !.seq = 1 + Cardinality({d \in BatchOthers(table, c) :
                                             table[d].pc = "collected"})]

\* What an item delivers to mergeMap: its result, or null for its error.
ItemResult(outcome, null) == IF outcome.res = "ok" THEN outcome.saved ELSE null

\* results.filter((r) => r !== null)
NonNull_Unfiltered(results, null) == results
NonNull(results, null) == SelectSeq(results, LAMBDA r : r # null)

\* The last item of a batch completes as `call`: toArray emits the values of
\* the items in the order of their completion, and the filter drops the nulls.
BatchReply(table, c, call, null) ==
    LET others == BatchOthers(table, c)
        k == Cardinality(others)
        outcome(item) == [item |-> item.batch, res |-> item.res, saved |-> item.saved]
        outcomes == [i \in 1..(k + 1) |->
                        IF i <= k THEN outcome(table[CHOOSE d \in others : table[d].seq = i])
                        ELSE outcome(call)]
        results == [i \in 1..(k + 1) |-> ItemResult(outcomes[i], null)]
    IN [call EXCEPT !.batchDone = TRUE, !.outcomes = outcomes,
                    !.emitted = NonNull(results, null)]

\* Call c goes on as `call`; one that is done delivers its result and is gone.
\* The last item of a batch to be done completes the batch.
Continue(c, call) ==
    IF call.pc = "done" /\ call.batch # 0
    THEN IF IsLastOfBatch(calls, c)
         THEN /\ calls' = [d \in Calls |-> IF calls[d].batch # 0 THEN Idle ELSE calls[d]]
              /\ reply' = BatchReply(calls, c, call, NullRow)
         ELSE /\ calls' = [calls EXCEPT ![c] = Collected(calls, c, call)]
              /\ reply' = call
    ELSE /\ calls' = [calls EXCEPT ![c] = IF call.pc = "done" THEN Idle ELSE call]
         /\ reply' = IF call.pc = "done" THEN call ELSE NoReply

\* The call goes on to updateRatingStatistics$(movieId): of its locals only the
\* movie id is used from here on, and the saved rating is its result (which
\* the model keeps for the items of a batch).
ToStatistics(call, movieId) ==
    [Idle EXCEPT !.pc = "statsQuery", !.kind = call.kind, !.movieId = movieId,
                 !.alone = call.alone, !.batch = call.batch,
                 !.batchSize = call.batchSize,
                 !.saved = IF call.batch # 0 THEN call.saved ELSE NullRow]

(***************************************************************************)
(* The ratings repository.                                                 *)
(***************************************************************************)
StoredRatings == {i \in DOMAIN ratings : ratings[i].id # 0}
RatingsOfMovie(m) == {i \in StoredRatings : ratings[i].movieId = m}
RatingsOfPair(u, m) ==
    {i \in StoredRatings : ratings[i].userId = u /\ ratings[i].movieId = m}

RECURSIVE SumRatings(_)
SumRatings(S) ==
    IF S = {} THEN 0
    ELSE LET i == CHOOSE j \in S : TRUE IN ratings[i].rating + SumRatings(S \ {i})

\* The ratings table without the unique constraint.
UniqueViolation_Unconstrained(row) == FALSE

\* @Unique(['user', 'movie']): no other row holds the row's (userId, movieId).
UniqueViolation(row) ==
    \E i \in RatingsOfPair(row.userId, row.movieId) : i # row.id

\* ratingRepository.save(entity): an entity whose id names a stored row updates
\* that row, any other entity is inserted (under its id, or under the next id
\* of the sequence when it has none).  The result is <<outcome, table, id>>.
SaveOutcome(entity) ==
    IF ~RatingFitsColumn(entity.rating) THEN "QueryFailedError: numeric field overflow"
    ELSE IF UniqueViolation(entity) THEN "QueryFailedError: duplicate key"
    ELSE "ok"

SavedId(entity) == IF entity.id # 0 THEN entity.id ELSE nextRatingId

SavedRow(entity) ==
    [entity EXCEPT !.id = SavedId(entity),
                   !.review = IF entity.review = Undefined THEN NullText
                              ELSE entity.review]

(***************************************************************************)
(* RatingsService.createOrUpdate$                                          *)
(***************************************************************************)
Truthy(s) == s \notin {Undefined, NullText, ""}

\* existingRating.review = createRatingDto.review || existingRating.review
UpdatedReview(given, previous) == IF Truthy(given) THEN given ELSE previous

\* The decision with the user checked before the movie.
CreateOrUpdateDecision_UserFirst(call) ==
    IF ~call.user THEN Fail(call, "NotFoundException: User")
    ELSE IF ~call.movie THEN Fail(call, "NotFoundException: Movie")
    ELSE [call EXCEPT !.pc = "save",
             !.entity = [id |-> 0, userId |-> call.userId, movieId |-> call.movieId,
                         rating |-> call.rating, review |-> call.review]]

\* The switchMap that follows the forkJoin of the three reads.
CreateOrUpdateDecision(call) ==
    IF ~call.movie THEN Fail(call, "NotFoundException: Movie")
    ELSE IF ~call.user THEN Fail(call, "NotFoundException: User")
    ELSE IF call.existing.id # 0
    THEN [call EXCEPT !.pc = "save", !.existing = NullRow,
             !.entity = [call.existing EXCEPT
                            !.rating = call.rating,
                            !.review = UpdatedReview(call.review, call.existing.review)]]
    ELSE [call EXCEPT !.pc = "save",
             !.entity = [id |-> 0, userId |-> call.userId, movieId |-> call.movieId,
                         rating |-> call.rating, review |-> call.review]]

InsertsInFlight ==
    Cardinality({d \in Calls : InFlight(d) /\ calls[d].kind = "createOrUpdate"})

StartCreateOrUpdate(c, u, m, r, rv) ==
    /\ FreeSlot(c)
    /\ nextRatingId + InsertsInFlight <= MaxRatingId
    /\ reply' = NoReply
    /\ calls' = Started(c, [Idle EXCEPT !.pc = "reads", !.kind = "createOrUpdate",
                               !.userId = u, !.movieId = m, !.rating = r, !.review = rv,
                               !.pending = {"movie", "user", "existingRating"}])
    /\ UNCHANGED <<users, movies, ratings, nextRatingId, ratingsFrame>>

\* One of the three findOne queries of the forkJoin answers; the last answer
\* runs the decision.
ReadResult(call, q) ==
    CASE q = "movie" -> [call EXCEPT !.movie = movies[call.movieId].id # 0]
      [] q = "user" -> [call EXCEPT !.user = users[call.userId].id # 0]
      [] q = "existingRating" ->
            [call EXCEPT !.existing =
                IF RatingsOfPair(call.userId, call.movieId) = {} THEN NullRow
                ELSE ratings[CHOOSE i \in RatingsOfPair(call.userId, call.movieId) : TRUE]]

ForkJoinRead(c) ==
    /\ calls[c].pc = "reads"
    /\ \E q \in calls[c].pending :
          LET got == [ReadResult(calls[c], q) EXCEPT !.pending = @ \ {q}]
          IN Continue(c, IF got.pending = {} THEN CreateOrUpdateDecision(got) ELSE got)
    /\ UNCHANGED <<users, movies, ratings, nextRatingId, ratingsFrame>>

\* from(this.ratingRepository.save(...)), then on to updateRatingStatistics$.
SaveRating(c) ==
    /\ calls[c].pc = "save"
    /\ LET entity == calls[c].entity
           outcome == SaveOutcome(entity)
       IN IF outcome = "ok"
          THEN /\ ratings' = [ratings EXCEPT ![SavedId(entity)] = SavedRow(entity)]
               /\ nextRatingId' = IF entity.id = 0 THEN nextRatingId + 1 ELSE nextRatingId
               /\ Continue(c, ToStatistics([calls[c] EXCEPT !.saved = SavedRow(entity)],
                                            entity.movieId))
          ELSE /\ Continue(c, Fail(calls[c], outcome))
               /\ UNCHANGED <<ratings, nextRatingId>>
    /\ UNCHANGED <<users, movies, ratingsFrame>>

(***************************************************************************)
(* MoviesService.updateRatingStatistics$                                   *)
(***************************************************************************)
\* The aggregate query: AVG(rating.rating) and COUNT(rating.id) of the movie.
StatsQuery(c) ==
    /\ calls[c].pc = "statsQuery"
    /\ Continue(c, [calls[c] EXCEPT
                        !.pc = "statsUpdate", !.statsInvoked = TRUE,
                        !.avg = SumRatings(RatingsOfMovie(calls[c].movieId)),
                        !.cnt = Cardinality(RatingsOfMovie(calls[c].movieId))])
    /\ UNCHANGED <<users, movies, ratings, nextRatingId, ratingsFrame>>

\* A column that cuts the average off after the first decimal.
AverageToStore_Truncated(sum, count) == IF count = 0 THEN 0 ELSE sum \div count

\* userRatingAverage: stats.avgRating || 0, userRatingCount: stats.ratingCount || 0
AverageToStore(sum, count) == IF count = 0 THEN 0 ELSE RoundToScale(sum, count)

StatsUpdate(c) ==
    /\ calls[c].pc = "statsUpdate"
    /\ movies' = [movies EXCEPT ![calls[c].movieId] =
                     IF @.id = 0 THEN @
                     ELSE [@ EXCEPT !.userRatingAverage =
                                        AverageToStore(calls[c].avg, calls[c].cnt),
                                    !.userRatingCount = calls[c].cnt]]
    /\ Continue(c, [calls[c] EXCEPT !.pc = "statsFindOne"])
    /\ UNCHANGED <<users, ratings, nextRatingId, ratingsFrame>>

\* switchMap(() => this.findOne$(movieId))
StatsFindOne(c) ==
    /\ calls[c].pc = "statsFindOne"
    /\ Continue(c, IF movies[calls[c].movieId].id = 0
                    THEN Fail(calls[c], "NotFoundException: Movie")
                    ELSE Done(calls[c], "ok"))
    /\ UNCHANGED <<users, movies, ratings, nextRatingId, ratingsFrame>>

(***************************************************************************)
(* RatingsService.update$ and remove$                                      *)
(***************************************************************************)
StartUpdate(c, id, u, r, rv) ==
    /\ FreeSlot(c)
    /\ reply' = NoReply
    /\ calls' = Started(c, [Idle EXCEPT !.pc = "findOne", !.kind = "update",
                               !.ratingId = id, !.userId = u, !.rating = r, !.review = rv])
    /\ UNCHANGED <<users, movies, ratings, nextRatingId, ratingsFrame>>

StartRemove(c, id, u) ==
    /\ FreeSlot(c)
    /\ reply' = NoReply
    /\ calls' = Started(c, [Idle EXCEPT !.pc = "findOne", !.kind = "remove",
                               !.ratingId = id, !.userId = u])
    /\ UNCHANGED <<users, movies, ratings, nextRatingId, ratingsFrame>>

\* The switchMap without the ownership check.
OwnerDecision_Unchecked(call, row) ==
    IF call.kind = "update"
    THEN [call EXCEPT !.pc = "save",
             !.entity = [row EXCEPT
                            !.rating = IF call.rating # NoRating THEN call.rating ELSE @,
                            !.review = IF call.review # Undefined THEN call.review ELSE @]]
    ELSE [call EXCEPT !.pc = "remove", !.entity = row, !.movieId = row.movieId]

\* The switchMap after findOne$(id): the ownership check, then the change.
OwnerDecision(call, row) ==
    IF row.userId # call.userId
    THEN Fail(call, IF call.kind = "update"
                    THEN "Error: You can only update your own ratings"
                    ELSE "Error: You can only delete your own ratings")
    ELSE IF call.kind = "update"
    THEN [call EXCEPT !.pc = "save",
             !.entity = [row EXCEPT
                            !.rating = IF call.rating # NoRating THEN call.rating ELSE @,
                            !.review = IF call.review # Undefined THEN call.review ELSE @]]
    ELSE [call EXCEPT !.pc = "remove", !.entity = row, !.movieId = row.movieId]

FindOneRating(c) ==
    /\ calls[c].pc = "findOne"
    /\ Continue(c, IF ratings[calls[c].ratingId].id = 0
                    THEN Fail(calls[c], "NotFoundException: Rating")
                    ELSE OwnerDecision(calls[c], ratings[calls[c].ratingId]))
    /\ UNCHANGED <<users, movies, ratings, nextRatingId, ratingsFrame>>

\* from(this.ratingRepository.remove(rating))
RemoveRating(c) ==
    /\ calls[c].pc = "remove"
    /\ ratings' = [ratings EXCEPT ![calls[c].entity.id] = NullRow]
    /\ Continue(c, ToStatistics(calls[c], calls[c].movieId))
    /\ UNCHANGED <<users, movies, nextRatingId, ratingsFrame>>

(***************************************************************************)
(* UsersService                                                            *)
(***************************************************************************)
Usernames == {"ann", "bob"}
Emails == {"ann@kib.io", "bob@kib.io"}
\* Two passwords CreateUserDto accepts (8 characters or more, a lower-case and
\* an upper-case letter, a digit and a special character): "Passw0rd!" and
\* "$2b$Passw0rd".
Passwords == {[prefix |-> "", rest |-> "Passw0rd!"], [prefix |-> "$2b$", rest |-> "Passw0rd"]}

IdleUserCall ==
    [pc |-> "idle", kind |-> "", username |-> "", email |-> "",
     password |-> [prefix |-> "", rest |-> ""], pending |-> {},
     existingUsername |-> FALSE, existingEmail |-> FALSE, user |-> NoUser,
     res |-> "", alone |-> FALSE, userId |-> 0, movieId |-> 0,
     newPassword |-> [prefix |-> "", rest |-> ""],
     movie |-> FALSE, watchlist |-> <<>>, favorites |-> <<>>,
     loaded |-> [watchlist |-> <<>>, favorites |-> <<>>], wrote |-> FALSE,
     caller |-> 0, firstName |-> ""]

UserInFlight(c) == ucalls[c].pc # "idle"

FreeUserSlot(c) ==
    /\ ucalls[c].pc = "idle"
    /\ \A d \in Calls : d < c => UserInFlight(d)

UserCallStarted(c, call) ==
    [d \in Calls |->
        IF d = c THEN [call EXCEPT !.alone = \A e \in Calls \ {c} : ~UserInFlight(e)]
        ELSE IF UserInFlight(d) THEN [ucalls[d] EXCEPT !.alone = FALSE]
        ELSE ucalls[d]]

UserContinue(c, call) ==
    /\ ucalls' = [ucalls EXCEPT ![c] = IF call.pc = "done" THEN IdleUserCall ELSE call]
    /\ ureply' = IF call.pc = "done" THEN call ELSE IdleUserCall

StoredUsers == {i \in UserIds : users[i].id # 0}
UsersNamed(name) == {i \in StoredUsers : users[i].username = name}
UsersMailed(mail) == {i \in StoredUsers : users[i].email = mail}

\* The decision with the email checked before the username.
CreateUserDecision_EmailFirst(call) ==
    IF call.existingEmail
    THEN Done(call, "ConflictException: Email already exists")
    ELSE IF call.existingUsername
    THEN Done(call, "ConflictException: Username already exists")
    ELSE [call EXCEPT !.pc = "save"]

\* The switchMap after the forkJoin of create$'s two findOne queries.
CreateUserDecision(call) ==
    IF call.existingUsername
    THEN Done(call, "ConflictException: Username already exists")
    ELSE IF call.existingEmail
    THEN Done(call, "ConflictException: Email already exists")
    ELSE [call EXCEPT !.pc = "save"]

CreatesInFlight ==
    Cardinality({d \in Calls : UserInFlight(d) /\ ucalls[d].kind = "create"})

StartCreateUser(c, name, mail, pw) ==
    /\ FreeUserSlot(c)
    /\ nextUserId + CreatesInFlight <= MaxUserId
    /\ ucalls' = UserCallStarted(c, [IdleUserCall EXCEPT
                     !.pc = "reads", !.kind = "create", !.username = name,
                     !.email = mail, !.password = pw,
                     !.pending = {"existingUsername", "existingEmail"}])
    /\ ureply' = IdleUserCall
    /\ UNCHANGED <<users, nextUserId, usersFrame>>

CreateUserReadResult(call, q) ==
    IF q = "existingUsername"
    THEN [call EXCEPT !.existingUsername = UsersNamed(call.username) # {}]
    ELSE [call EXCEPT !.existingEmail = UsersMailed(call.email) # {}]

CreateUserRead(c) ==
    /\ ucalls[c].pc = "reads"
    /\ \E q \in ucalls[c].pending :
          LET got == [CreateUserReadResult(ucalls[c], q) EXCEPT !.pending = @ \ {q}]
          IN UserContinue(c, IF got.pending = {} THEN CreateUserDecision(got) ELSE got)
    /\ UNCHANGED <<users, nextUserId, usersFrame>>

\* @Index(['email'], { unique: true }), @Index(['username'], { unique: true })
UserInsertOutcome(name, mail) ==
    IF UsersNamed(name) # {} \/ UsersMailed(mail) # {}
    THEN "QueryFailedError: duplicate key"
    ELSE "ok"

\* from(this.userRepository.save(user)): hashPassword runs before the insert.
SaveUser(c) ==
    /\ ucalls[c].pc = "save"
    /\ LET call == ucalls[c]
           row == [id |-> nextUserId, username |-> call.username, email |-> call.email,
                   password |-> HashPassword(call.password), firstName |-> ""]
           outcome == UserInsertOutcome(call.username, call.email)
       IN IF outcome = "ok"
          THEN /\ users' = [users EXCEPT ![nextUserId] = row]
               /\ nextUserId' = nextUserId + 1
               /\ UserContinue(c, Done([call EXCEPT !.user = row], "ok"))
          ELSE /\ UserContinue(c, Done(call, outcome))
               /\ UNCHANGED <<users, nextUserId>>
    /\ UNCHANGED usersFrame

\* validateUser$(username, password) and login$, which maps its result.
StartValidateUser(c, kind, name, pw) ==
    /\ FreeUserSlot(c)
    /\ ucalls' = UserCallStarted(c, [IdleUserCall EXCEPT
                     !.pc = "find", !.kind = kind, !.username = name, !.password = pw])
    /\ ureply' = IdleUserCall
    /\ UNCHANGED <<users, nextUserId, usersFrame>>

\* validateUser$ without its catchError: the error goes through as it is.
ValidateUserError_Rethrown(error) == error

\* validateUser$'s catchError: whatever failed, the caller gets this.
ValidateUserError(error) == "UnauthorizedException: Invalid credentials"

\* findByUsernameOrEmail$: user.username = :value OR user.email = :value
FindByUsernameOrEmail(c) ==
    /\ ucalls[c].pc = "find"
    /\ LET call == ucalls[c]
           found == UsersNamed(call.username) \cup UsersMailed(call.username)
       IN IF found = {}
          THEN UserContinue(c, Done(call, ValidateUserError("NotFoundException: User not found")))
          ELSE \E i \in found :
                  UserContinue(c, [call EXCEPT !.pc = "compare", !.user = users[i]])
    /\ UNCHANGED <<users, nextUserId, usersFrame>>

\* from(user.validatePassword(password)), on the user as it was loaded.
ComparePassword(c) ==
    /\ ucalls[c].pc = "compare"
    /\ LET call == ucalls[c]
       IN UserContinue(c,
              IF ValidatePassword(call.user.password, call.password)
              THEN Done(call, "ok")
              ELSE Done(call, ValidateUserError("UnauthorizedException: Invalid credentials")))
    /\ UNCHANGED <<users, nextUserId, usersFrame>>

InitUsers ==
    /\ users = [i \in UserIds |-> NoUser]
    /\ nextUserId = 1
    /\ ucalls = [c \in Calls |-> IdleUserCall]
    /\ ureply = IdleUserCall
    /\ movies = [m \in MovieIds |-> NoMovie]
    /\ ratings = [i \in RatingIds |-> NullRow]
    /\ nextRatingId = 1
    /\ calls = [c \in Calls |-> Idle]
    /\ reply = NoReply
    /\ nextMovieId = RatedMovie
    /\ IdleElsewhere

NextUsers ==
    \E c \in Calls :
        \/ \E name \in Usernames, mail \in Emails, pw \in Passwords :
              StartCreateUser(c, name, mail, pw)
        \/ CreateUserRead(c)
        \/ SaveUser(c)
        \/ \E kind \in {"validateUser", "login"}, name \in Usernames \cup Emails,
              pw \in Passwords : StartValidateUser(c, kind, name, pw)
        \/ FindByUsernameOrEmail(c)
        \/ ComparePassword(c)

SpecUsers == InitUsers /\ [][NextUsers]_vars

(***************************************************************************)
(* The rating service over a store that holds two users and one movie.     *)
(***************************************************************************)
StoredUser(i) ==
    [id |-> i,
     username |-> CASE i = 1 -> "ann" [] i = 2 -> "bob" [] i = 3 -> "cyd" [] OTHER -> "dan",
     email |-> CASE i = 1 -> "ann@kib.io" [] i = 2 -> "bob@kib.io"
                 [] i = 3 -> "cyd@kib.io" [] OTHER -> "dan@kib.io",
     password |-> HashPassword([prefix |-> "", rest |-> "Passw0rd!"]),
     firstName |-> ""]

Init ==
    /\ users = [i \in UserIds |-> IF i \in Raters THEN StoredUser(i) ELSE NoUser]
    /\ nextUserId = MaxUserId + 1
    /\ nextMovieId = RatedMovie + 1
    /\ ucalls = [c \in Calls |-> IdleUserCall]
    /\ ureply = IdleUserCall
    /\ movies = [m \in MovieIds |->
                    IF m = RatedMovie
                    THEN [NoMovie EXCEPT !.id = m, !.tmdbId = 101, !.popularity = 505]
                    ELSE NoMovie]
    /\ IdleElsewhere
    /\ ratings = [i \in RatingIds |-> NullRow]
    /\ nextRatingId = 1
    /\ calls = [c \in Calls |-> Idle]
    /\ reply = NoReply

Next ==
    \E c \in Calls :
        \/ \E q \in CreateRequests : StartCreateOrUpdate(c, q[1], q[2], q[3], q[4])
        \/ ForkJoinRead(c)
        \/ SaveRating(c)
        \/ StatsQuery(c)
        \/ StatsUpdate(c)
        \/ StatsFindOne(c)
        \/ \E id \in RatingIds, u \in Raters, d \in UpdateDtos :
              StartUpdate(c, id, u, d[1], d[2])
        \/ \E id \in RatingIds, u \in Raters : StartRemove(c, id, u)
        \/ FindOneRating(c)
        \/ RemoveRating(c)

Spec == Init /\ [][Next]_vars

\* The same service when the calls are made one at a time, with every rating
\* and review the DTOs accept.
NextOneCall ==
    \E c \in {CHOOSE d \in Calls : \A e \in Calls : d <= e} :
        \/ \E q \in AllCreateRequests : StartCreateOrUpdate(c, q[1], q[2], q[3], q[4])
        \/ ForkJoinRead(c)
        \/ SaveRating(c)
        \/ StatsQuery(c)
        \/ StatsUpdate(c)
        \/ StatsFindOne(c)
        \/ \E id \in RatingIds, u \in Raters, d \in AllUpdateDtos :
              StartUpdate(c, id, u, d[1], d[2])
        \/ \E id \in RatingIds, u \in Raters : StartRemove(c, id, u)
        \/ FindOneRating(c)
        \/ RemoveRating(c)

SpecOneCall == Init /\ [][NextOneCall]_vars

(***************************************************************************)
(* TmdbService: every endpoint pipes its HTTP request through              *)
(* retry({ count: 3, delay: (error, retryCount) => timer(1000 * retryCount) *)
(* }) and then through a catchError that logs and rethrows.                *)
(***************************************************************************)
Endpoints ==
    {"getPopularMovies$", "getTopRatedMovies$", "getNowPlayingMovies$",
     "getUpcomingMovies$", "getMovieDetails$", "searchMovies$", "discoverMovies$",
     "getGenres$"}

RetryCount == 3      \* retry({ count: 3, ... })
BackoffMs == 1000    \* timer(1000 * retryCount)

\* A constant backoff.
RetryDelay_Constant(retryCount) == BackoffMs

\* delay: (error, retryCount) => timer(1000 * retryCount)
RetryDelay(retryCount) == BackoffMs * retryCount

\* A caller subscribes to the observable of an endpoint: the HTTP request is sent.
StartRequest(r, endpoint) ==
    /\ requests[r].pc = "idle"
    /\ \A q \in Requests : q < r => requests[q].pc # "idle"
    /\ requests' = [requests EXCEPT ![r] = [IdleRequest EXCEPT !.pc = "http",
                                                             !.endpoint = endpoint]]
    /\ UNCHANGED tmdbFrame

\* The response arrives: map, tap, and the value and completion reach the caller.
HttpSucceeds(r) ==
    /\ requests[r].pc = "http"
    /\ requests' = [requests EXCEPT ![r].log = Append(@, "ok"), ![r].pc = "done",
                                     ![r].res = "ok"]
    /\ UNCHANGED tmdbFrame

\* The request fails: retry counts the error and, while the count is within
\* RetryCount, starts the delay timer; past it the error goes on to catchError,
\* which rethrows it to the caller.
HttpFails(r) ==
    /\ requests[r].pc = "http"
    /\ LET soFar == Len(requests[r].log) + 1
       IN requests' =
            [requests EXCEPT
                ![r].log = Append(@, "error"),
                ![r].pc = IF soFar <= RetryCount THEN "timer" ELSE "done",
                ![r].delays = IF soFar <= RetryCount THEN Append(@, RetryDelay(soFar))
                              ELSE @,
                ![r].res = IF soFar <= RetryCount THEN "" ELSE "error"]
    /\ UNCHANGED tmdbFrame

\* The delay timer fires: retry subscribes to the source again.
TimerFires(r) ==
    /\ requests[r].pc = "timer"
    /\ requests' = [requests EXCEPT ![r].pc = "http"]
    /\ UNCHANGED tmdbFrame

\* The caller is done with the request.
Unsubscribe(r) ==
    /\ requests[r].pc = "done"
    /\ requests' = [requests EXCEPT ![r] = IdleRequest]
    /\ UNCHANGED tmdbFrame

InitTmdb ==
    /\ users = [i \in UserIds |-> NoUser]
    /\ nextUserId = 1
    /\ movies = [m \in MovieIds |-> NoMovie]
    /\ nextMovieId = RatedMovie
    /\ ratings = [i \in RatingIds |-> NullRow]
    /\ nextRatingId = 1
    /\ calls = [c \in Calls |-> Idle]
    /\ reply = NoReply
    /\ ucalls = [c \in Calls |-> IdleUserCall]
    /\ ureply = IdleUserCall
    /\ IdleElsewhere

NextTmdb ==
    \E r \in Requests :
        \/ \E endpoint \in Endpoints : StartRequest(r, endpoint)
        \/ HttpSucceeds(r)
        \/ HttpFails(r)
        \/ TimerFires(r)
        \/ Unsubscribe(r)

SpecTmdb == InitTmdb /\ [][NextTmdb]_vars

(***************************************************************************)
(* TmdbSyncService.  A sync method builds an observable and returns it;    *)
(* the pipeline of an observable runs only once something subscribes to    *)
(* it.  onModuleInit subscribes (toPromise) to what syncGenres and         *)
(* syncInitialMovies return.  syncPopularMovies is called by the scheduler *)
(* (@Cron), which calls the method and does nothing with an observable it  *)
(* returns.  The TMDB requests of a pipeline are one step here, with their *)
(* final outcome; the genre table is not part of the model.                *)
(***************************************************************************)
PopularityPrecision == 3   \* Movie.popularity: decimal(3,1)

PopularityFitsColumn(v) == v < Pow10(PopularityPrecision)

\* The movies TMDB knows, by TMDB id, and their popularity in tenths.
TmdbIds == {101, 102, 103}
TmdbPopularity(t) == CASE t = 101 -> 505 [] t = 102 -> 1500 [] OTHER -> 72

RECURSIVE SeqsOver(_, _)
SeqsOver(S, n) ==
    IF n = 0 THEN {<<>>}
    ELSE LET shorter == SeqsOver(S, n - 1)
         IN shorter \cup {Append(q, t) : q \in shorter, t \in S}

Distinct(q) == \A i, j \in 1..Len(q) : i # j => q[i] # q[j]

\* What a fetch can deliver: the movies of the fetched pages, each id once
\* (syncInitialMovies deduplicates through a Map keyed by id).
TmdbPages == {q \in SeqsOver(TmdbIds, MaxMovieId) : Distinct(q)}

StoredMovies == {m \in MovieIds : movies[m].id # 0}
MoviesOfTmdbId(t) == {m \in StoredMovies : movies[m].tmdbId = t}
NewMovies(page) == {i \in 1..Len(page) : MoviesOfTmdbId(page[i]) = {}}

\* A sync pipeline: list holds the movies it set out to save, queue those
\* still to go, saved those whose save succeeded.
NoSync ==
    [method |-> "", subscribed |-> FALSE, pc |-> "fetch", list |-> <<>>, queue |-> <<>>,
     existing |-> NoMovie, saved |-> <<>>]

\* What the four categories of fetchMultipleCategories$ deliver, one after the
\* other: a movie can be in several of them.
CategoryLists == SeqsOver(TmdbIds, MaxMovieId)

\* A list that keeps the repeated movies.
Dedupe_Kept(list) == list

\* movieMap.set(movie.id, movie) for each movie, then
\* Array.from(movieMap.values()): each id once, in the order of first
\* appearance.
RECURSIVE Dedupe(_)
Dedupe(list) ==
    IF list = <<>> THEN <<>>
    ELSE LET front == Dedupe(SubSeq(list, 1, Len(list) - 1))
             last == list[Len(list)]
         IN IF \E i \in DOMAIN front : front[i] = last THEN front
            ELSE Append(front, last)

\* The observable a sync method returns.
Observable(method) == [NoSync EXCEPT !.method = method]

\* toPromise(): subscribes.
ToPromise(observable) == [observable EXCEPT !.subscribed = TRUE]

Running(s) == s \in DOMAIN syncs /\ syncs[s].subscribed

\* from(list).pipe(concatMap(...), toArray()): on to the next movie, or complete.
NextMovie(sync, rest) ==
    [sync EXCEPT !.queue = rest, !.existing = NoMovie,
                 !.pc = IF rest = <<>> THEN "complete" ELSE "find"]

\* async onModuleInit(): await this.syncGenres().toPromise()
ModuleInit ==
    /\ boot.pc = "starting"
    /\ syncs' = Append(syncs, ToPromise(Observable("syncGenres")))
    /\ boot' = [pc |-> "genres", awaits |-> Len(syncs) + 1]
    /\ UNCHANGED <<movies, nextMovieId, cronTicks, syncFrame>>

\* syncGenres: getGenres$ and the upserts, or catchError(() => of([])).
SyncGenres(s) ==
    /\ Running(s)
    /\ syncs[s].method = "syncGenres"
    /\ syncs[s].pc = "fetch"
    /\ syncs' = [syncs EXCEPT ![s].pc = "complete"]
    /\ UNCHANGED <<movies, nextMovieId, boot, cronTicks, syncFrame>>

\* await this.syncInitialMovies().toPromise(), once the genres are through.
GenresSynced ==
    /\ boot.pc = "genres"
    /\ syncs[boot.awaits].pc = "complete"
    /\ syncs' = Append(syncs, ToPromise(Observable("syncInitialMovies")))
    /\ boot' = [pc |-> "movies", awaits |-> Len(syncs) + 1]
    /\ UNCHANGED <<movies, nextMovieId, cronTicks, syncFrame>>

\* onModuleInit returns, or rejects with the error of the observable.
InitialMoviesSynced ==
    /\ boot.pc = "movies"
    /\ syncs[boot.awaits].pc \in {"complete", "error"}
    /\ boot' = [pc |-> IF syncs[boot.awaits].pc = "complete" THEN "ready" ELSE "failed",
                awaits |-> 0]
    /\ UNCHANGED <<movies, nextMovieId, syncs, cronTicks, syncFrame>>

\* fetchMultipleCategories$(3) resp. getPopularMovies$(1) of a subscribed
\* observable: the movies arrive, or the request's error goes to the subscriber.
FetchMovies(s) ==
    /\ Running(s)
    /\ syncs[s].method \in {"syncInitialMovies", "syncPopularMovies"}
    /\ syncs[s].pc = "fetch"
    /\ \/ \E fetched \in IF syncs[s].method = "syncInitialMovies" THEN CategoryLists
                          ELSE TmdbPages :
             LET page == IF syncs[s].method = "syncInitialMovies" THEN Dedupe(fetched)
                         ELSE fetched
             IN /\ nextMovieId + Cardinality(NewMovies(page)) <= MaxMovieId + 1
                /\ syncs' = [syncs EXCEPT ![s] = [NextMovie(@, page) EXCEPT !.list = page]]
       \/ syncs' = [syncs EXCEPT ![s].pc = "error"]
    /\ UNCHANGED <<movies, nextMovieId, boot, cronTicks, syncFrame>>

\* saveMovie: movieRepository.findOne({ where: { tmdbId: tmdbMovie.id } })
FindExistingMovie(s) ==
    /\ Running(s)
    /\ syncs[s].pc = "find"
    /\ LET found == MoviesOfTmdbId(Head(syncs[s].queue))
       IN syncs' = [syncs EXCEPT
                       ![s].pc = "save",
                       ![s].existing = IF found = {} THEN NoMovie
                                       ELSE movies[CHOOSE m \in found : TRUE]]
    /\ UNCHANGED <<movies, nextMovieId, boot, cronTicks, syncFrame>>

\* saveMovie: movieRepository.save of the existing movie under the TMDB data
\* and its own rating statistics, or of a new movie.
MovieToSave(existing, t) ==
    IF existing.id # 0 THEN [existing EXCEPT !.tmdbId = t, !.popularity = TmdbPopularity(t)]
    ELSE [NoMovie EXCEPT !.id = nextMovieId, !.tmdbId = t, !.popularity = TmdbPopularity(t)]

MovieSaveOutcome(row) ==
    IF ~PopularityFitsColumn(row.popularity) THEN "QueryFailedError: numeric field overflow"
    ELSE IF \E m \in MoviesOfTmdbId(row.tmdbId) : m # row.id
    THEN "QueryFailedError: duplicate key"
    ELSE "ok"

\* A saved movie goes on to delay(100); an error skips the delay and
\* catchError turns it into of(null).
SaveMovie(s) ==
    /\ Running(s)
    /\ syncs[s].pc = "save"
    /\ LET row == MovieToSave(syncs[s].existing, Head(syncs[s].queue))
       IN IF MovieSaveOutcome(row) = "ok"
          THEN /\ movies' = [movies EXCEPT ![row.id] = row]
               /\ nextMovieId' = IF syncs[s].existing.id = 0 THEN nextMovieId + 1
                                 ELSE nextMovieId
               /\ syncs' = [syncs EXCEPT ![s].pc = "delay",
                                         ![s].saved = Append(@, row.tmdbId)]
          ELSE /\ syncs' = [syncs EXCEPT ![s] = NextMovie(@, Tail(syncs[s].queue))]
               /\ UNCHANGED <<movies, nextMovieId>>
    /\ UNCHANGED <<boot, cronTicks, syncFrame>>

\* delay(100) lets the saved movie through.
Delay(s) ==
    /\ Running(s)
    /\ syncs[s].pc = "delay"
    /\ syncs' = [syncs EXCEPT ![s] = NextMovie(@, Tail(syncs[s].queue))]
    /\ UNCHANGED <<movies, nextMovieId, boot, cronTicks, syncFrame>>

\* @Cron(CronExpression.EVERY_HOUR): the scheduler, started once the
\* application is up, calls syncPopularMovies(); the method logs and returns
\* its observable.
CronTick ==
    /\ boot.pc = "ready"
    /\ cronTicks < MaxTicks
    /\ cronTicks' = cronTicks + 1
    /\ syncs' = Append(syncs, Observable("syncPopularMovies"))
    /\ UNCHANGED <<movies, nextMovieId, boot, syncFrame>>

SyncIds == 1..(MaxTicks + 2)

InitSync ==
    /\ users = [i \in UserIds |-> NoUser]
    /\ nextUserId = 1
    /\ \E stored \in {{}, {RatedMovie}} :
          /\ movies = [m \in MovieIds |->
                          IF m \in stored
                          THEN [NoMovie EXCEPT !.id = m, !.tmdbId = 101, !.popularity = 505,
                                               !.userRatingAverage = 80,
                                               !.userRatingCount = 1]
                          ELSE NoMovie]
          /\ nextMovieId = RatedMovie + Cardinality(stored)
    /\ ratings = [i \in RatingIds |-> NullRow]
    /\ nextRatingId = 1
    /\ calls = [c \in Calls |-> Idle]
    /\ reply = NoReply
    /\ ucalls = [c \in Calls |-> IdleUserCall]
    /\ ureply = IdleUserCall
    /\ IdleElsewhere

NextSync ==
    \/ ModuleInit
    \/ GenresSynced
    \/ InitialMoviesSynced
    \/ CronTick
    \/ \E s \in SyncIds :
          \/ SyncGenres(s)
          \/ FetchMovies(s)
          \/ FindExistingMovie(s)
          \/ SaveMovie(s)
          \/ Delay(s)

\* Startup with an empty movie table, or with a movie stored and rated before.
SpecSync == InitSync /\ [][NextSync]_vars

\* Every step that can be taken is taken eventually: TMDB and the store
\* respond, timers fire and the scheduler ticks.
FairSpecSync == SpecSync /\ WF_vars(NextSync)

(***************************************************************************)
(* UsersService.changePassword$                                            *)
(***************************************************************************)
\* The body of POST /users/change-password is not a validated class: any
\* string is a new password.  "Passw0rd!", "$2b$Passw0rd", "N3wPassw0rd!", "".
AnyPasswords ==
    Passwords \cup {[prefix |-> "", rest |-> "N3wPassw0rd!"], [prefix |-> "", rest |-> ""]}

StartChangePassword(c, u, old, new) ==
    /\ FreeUserSlot(c)
    /\ ucalls' = UserCallStarted(c, [IdleUserCall EXCEPT
                     !.pc = "findOne", !.kind = "changePassword", !.userId = u,
                     !.password = old, !.newPassword = new])
    /\ ureply' = IdleUserCall
    /\ UNCHANGED <<users, nextUserId, usersFrame>>

\* findOne$(userId), for the calls that start with it.
FindOneUser(c) ==
    /\ ucalls[c].pc = "findOne"
    /\ LET call == ucalls[c]
       IN UserContinue(c, IF users[call.userId].id = 0
                          THEN Done(call, "NotFoundException: User")
                          ELSE [call EXCEPT !.pc = CASE call.kind = "changePassword"
                                                          -> "validateOld"
                                                     [] call.kind = "update" -> "updateUser"
                                                     [] OTHER -> "removeUser",
                                            !.user = users[call.userId]])
    /\ UNCHANGED <<users, nextUserId, usersFrame>>

\* from(user.validatePassword(oldPassword)) and the switchMap after it.
ValidateOldPassword(c) ==
    /\ ucalls[c].pc = "validateOld"
    /\ LET call == ucalls[c]
       IN UserContinue(c,
              IF ValidatePassword(call.user.password, call.password)
              THEN [call EXCEPT !.pc = "savePassword"]
              ELSE Done(call, "UnauthorizedException: Invalid current password"))
    /\ UNCHANGED <<users, nextUserId, usersFrame>>

\* user.password = newPassword; this.userRepository.save(user): hashPassword
\* runs before the update, which writes the loaded user's columns.
SavePassword(c) ==
    /\ ucalls[c].pc = "savePassword"
    /\ LET call == ucalls[c]
           row == [call.user EXCEPT !.password = HashPassword(call.newPassword)]
       IN /\ users' = [users EXCEPT ![row.id] = row]
          /\ UserContinue(c, Done([call EXCEPT !.user = row], "ok"))
    /\ UNCHANGED <<nextUserId, usersFrame>>

\* The user service over a store that holds the two users.
InitPasswords ==
    /\ users = [i \in UserIds |-> IF i \in Raters THEN StoredUser(i) ELSE NoUser]
    /\ nextUserId = MaxUserId + 1
    /\ ucalls = [c \in Calls |-> IdleUserCall]
    /\ ureply = IdleUserCall
    /\ movies = [m \in MovieIds |-> NoMovie]
    /\ nextMovieId = RatedMovie
    /\ ratings = [i \in RatingIds |-> NullRow]
    /\ nextRatingId = 1
    /\ calls = [c \in Calls |-> Idle]
    /\ reply = NoReply
    /\ IdleElsewhere

\* The calls are made one at a time.
NextPasswords ==
    \E c \in {CHOOSE d \in Calls : \A e \in Calls : d <= e} :
        \/ \E u \in UserIds, old \in AnyPasswords, new \in AnyPasswords :
              StartChangePassword(c, u, old, new)
        \/ FindOneUser(c)
        \/ ValidateOldPassword(c)
        \/ SavePassword(c)
        \/ \E pw \in AnyPasswords : StartValidateUser(c, "validateUser", "ann", pw)
        \/ FindByUsernameOrEmail(c)
        \/ ComparePassword(c)

SpecPasswords == InitPasswords /\ [][NextPasswords]_vars

(***************************************************************************)
(* UsersService: watchlist and favorites                                   *)
(***************************************************************************)
listsFrame ==
    <<users, nextUserId, movies, ratings, nextRatingId, calls, reply, requests,
      nextMovieId, boot, syncs, cronTicks, mcalls, mreply,
      stats, scan,
      cache, hreply,
      merge>>

ListKinds ==
    {"addToWatchlist", "removeFromWatchlist", "addToFavorites", "removeFromFavorites"}

\* The movies of a list.
IdsOf(list) == {list[i] : i \in DOMAIN list}

\* The lists a relation can be loaded as: its rows, in an order the query
\* does not fix.
Orderings(S) == {q \in SeqsOver(S, Cardinality(S)) : Distinct(q) /\ IdsOf(q) = S}

\* user.watchlist?.some((m) => m.id === movieId)
IsInList_Never(list, movieId) == FALSE
IsInList(list, movieId) == \E i \in DOMAIN list : list[i] = movieId

\* user.watchlist.filter((m) => m.id !== movieId)
WithoutMovie_Unfiltered(list, movieId) == list
WithoutMovie(list, movieId) == SelectSeq(list, LAMBDA id : id # movieId)

StartListCall(c, kind, userId, movieId) ==
    /\ FreeUserSlot(c)
    /\ ucalls' = UserCallStarted(c, [IdleUserCall EXCEPT !.pc = "load", !.kind = kind,
                                                        !.userId = userId,
                                                        !.movieId = movieId])
    /\ ureply' = IdleUserCall
    /\ UNCHANGED <<watchlist, favorites, listsFrame>>

\* What the switchMap does with the loaded user (and movie): the result of a
\* call that ends there, or the changed user on its way to save.
ListDecision(call) ==
    LET isWatchlist == call.kind \in {"addToWatchlist", "removeFromWatchlist"}
        list == IF isWatchlist THEN call.watchlist ELSE call.favorites
        changed(new) == IF isWatchlist
                        THEN [call EXCEPT !.pc = "saveLists", !.watchlist = new]
                        ELSE [call EXCEPT !.pc = "saveLists", !.favorites = new]
    IN IF call.kind \in {"addToWatchlist", "addToFavorites"}
       THEN IF ~call.movie THEN Done(call, "NotFoundException: Movie")
            ELSE IF IsInList(list, call.movieId) THEN Done(call, "ok")
            ELSE changed(Append(list, call.movieId))
       ELSE changed(WithoutMovie(list, call.movieId))

\* findOne$(userId) with its relations, joined for an add with
\* movieRepository.findOne; no list call changes a user or a movie, so the
\* two reads see one state of them.
LoadUserAndMovie(c) ==
    /\ ucalls[c].pc = "load"
    /\ LET call == ucalls[c]
       IN IF users[call.userId].id = 0
          THEN UserContinue(c, Done(call, "NotFoundException: User"))
          ELSE \E w \in Orderings(watchlist[call.userId]),
                  f \in Orderings(favorites[call.userId]) :
                  UserContinue(c, ListDecision(
                      [call EXCEPT !.user = users[call.userId],
                                   !.movie = movies[call.movieId].id # 0,
                                   !.watchlist = w, !.favorites = f,
                                   !.loaded = [watchlist |-> w, favorites |-> f]]))
    /\ UNCHANGED <<watchlist, favorites, listsFrame>>

\* userRepository.save(user): the rows of both join tables become the
\* entity's lists; the user's columns are as loaded.
SaveLists(c) ==
    /\ ucalls[c].pc = "saveLists"
    /\ LET call == ucalls[c]
       IN /\ watchlist' = [watchlist EXCEPT ![call.userId] = IdsOf(call.watchlist)]
          /\ favorites' = [favorites EXCEPT ![call.userId] = IdsOf(call.favorites)]
          /\ UserContinue(c, Done([call EXCEPT !.wrote = TRUE], "ok"))
    /\ UNCHANGED listsFrame

\* The users the list calls are made for: a stored one and one that is not.
ListCallers == {1, MaxUserId + 1}

\* Two users are stored, and the movies, all or all but the last; the lists
\* are empty.
InitLists ==
    /\ users = [i \in UserIds |-> IF i \in Raters THEN StoredUser(i) ELSE NoUser]
    /\ nextUserId = MaxUserId + 1
    /\ ucalls = [c \in Calls |-> IdleUserCall]
    /\ ureply = IdleUserCall
    /\ \E stored \in {MovieIds, MovieIds \ {MissingMovie}} :
          /\ movies = [m \in MovieIds |->
                          IF m \in stored
                          THEN [NoMovie EXCEPT !.id = m, !.tmdbId = 100 + m,
                                               !.popularity = 505]
                          ELSE NoMovie]
          /\ nextMovieId = Cardinality(stored) + 1
    /\ ratings = [i \in RatingIds |-> NullRow]
    /\ nextRatingId = 1
    /\ calls = [c \in Calls |-> Idle]
    /\ reply = NoReply
    /\ IdleElsewhere

\* The calls are made one at a time.
NextLists ==
    \E c \in {CHOOSE d \in Calls : \A e \in Calls : d <= e} :
        \/ \E kind \in ListKinds, u \in ListCallers, m \in MovieIds :
              StartListCall(c, kind, u, m)
        \/ LoadUserAndMovie(c)
        \/ SaveLists(c)

SpecLists == InitLists /\ [][NextLists]_vars

\* Adds of two stored movies for one user, made while others are under way.
NextConcurrentAdds ==
    \E c \in Calls :
        \/ \E kind \in {"addToWatchlist", "addToFavorites"}, m \in {RatedMovie, RatedMovie + 1} :
              StartListCall(c, kind, 1, m)
        \/ LoadUserAndMovie(c)
        \/ SaveLists(c)

SpecConcurrentAdds == InitLists /\ [][NextConcurrentAdds]_vars

(***************************************************************************)
(* MoviesService.create$                                                   *)
(***************************************************************************)
moviesFrame ==
    <<users, nextUserId, ratings, nextRatingId, calls, reply, ucalls, ureply, requests,
      boot, syncs, cronTicks,
      watchlist, favorites,
      stats, scan,
      cache, hreply,
      merge>>

\* CreateMovieDto.popularity: an optional number, in tenths.
MoviePopularities == {505, 1500}

MovieCallInFlight(c) == mcalls[c].pc # "idle"

FreeMovieSlot(c) ==
    /\ mcalls[c].pc = "idle"
    /\ \A d \in Calls : d < c => MovieCallInFlight(d)

MovieCallStarted(c, call) ==
    [d \in Calls |->
        IF d = c THEN [call EXCEPT !.alone = \A e \in Calls \ {c} : ~MovieCallInFlight(e)]
        ELSE IF MovieCallInFlight(d) THEN [mcalls[d] EXCEPT !.alone = FALSE]
        ELSE mcalls[d]]

MovieContinue(c, call) ==
    IF call.pc = "done" /\ call.batch # 0
    THEN IF IsLastOfBatch(mcalls, c)
         THEN /\ mcalls' = [d \in Calls |-> IF mcalls[d].batch # 0 THEN IdleMovieCall
                                             ELSE mcalls[d]]
              /\ mreply' = BatchReply(mcalls, c, call, NoMovie)
         ELSE /\ mcalls' = [mcalls EXCEPT ![c] = Collected(mcalls, c, call)]
              /\ mreply' = call
    ELSE /\ mcalls' = [mcalls EXCEPT ![c] = IF call.pc = "done" THEN IdleMovieCall
                                           ELSE call]
         /\ mreply' = IF call.pc = "done" THEN call ELSE IdleMovieCall

StartCreateMovie(c, t, popularity) ==
    /\ FreeMovieSlot(c)
    /\ nextMovieId + Cardinality({d \in Calls : MovieCallInFlight(d)}) <= MaxMovieId
    /\ mcalls' = MovieCallStarted(c, [IdleMovieCall EXCEPT !.pc = "find", !.tmdbId = t,
                                                          !.popularity = popularity])
    /\ mreply' = IdleMovieCall
    /\ UNCHANGED <<movies, nextMovieId, moviesFrame>>

\* movieRepository.findOne({ where: { tmdbId } }) and the switchMap after it.
FindMovieByTmdbId(c) ==
    /\ mcalls[c].pc = "find"
    /\ MovieContinue(c, IF MoviesOfTmdbId(mcalls[c].tmdbId) # {}
                         THEN Done([mcalls[c] EXCEPT !.existing = TRUE],
                                   "Error: Movie already exists")
                         ELSE [mcalls[c] EXCEPT !.pc = "save"])
    /\ UNCHANGED <<movies, nextMovieId, moviesFrame>>

\* from(this.movieRepository.save(movie)); catchError logs and rethrows.
SaveNewMovie(c) ==
    /\ mcalls[c].pc = "save"
    /\ LET row == [NoMovie EXCEPT !.id = nextMovieId, !.tmdbId = mcalls[c].tmdbId,
                                  !.popularity = mcalls[c].popularity]
           outcome == MovieSaveOutcome(row)
       IN IF outcome = "ok"
          THEN /\ movies' = [movies EXCEPT ![nextMovieId] = row]
               /\ nextMovieId' = nextMovieId + 1
               /\ MovieContinue(c, Done([mcalls[c] EXCEPT !.saved = row], "ok"))
          ELSE /\ MovieContinue(c, Done(mcalls[c], outcome))
               /\ UNCHANGED <<movies, nextMovieId>>
    /\ UNCHANGED moviesFrame

\* The movie service over a store that holds one movie.
InitMovies ==
    /\ users = [i \in UserIds |-> NoUser]
    /\ nextUserId = 1
    /\ movies = [m \in MovieIds |->
                    IF m = RatedMovie
                    THEN [NoMovie EXCEPT !.id = m, !.tmdbId = 101, !.popularity = 505]
                    ELSE NoMovie]
    /\ nextMovieId = RatedMovie + 1
    /\ ratings = [i \in RatingIds |-> NullRow]
    /\ nextRatingId = 1
    /\ calls = [c \in Calls |-> Idle]
    /\ reply = NoReply
    /\ ucalls = [c \in Calls |-> IdleUserCall]
    /\ ureply = IdleUserCall
    /\ IdleElsewhere

NextMovies ==
    \E c \in Calls :
        \/ \E t \in TmdbIds, popularity \in MoviePopularities :
              StartCreateMovie(c, t, popularity)
        \/ FindMovieByTmdbId(c)
        \/ SaveNewMovie(c)

SpecMovies == InitMovies /\ [][NextMovies]_vars

(***************************************************************************)
(* RatingsService.batchRate$ and MoviesService.batchCreate$                *)
(***************************************************************************)
\* The items of a batchRate$ body, <<movieId, rating>>, and the user it is
\* sent for; the items of a batchCreate$ body, <<tmdbId, popularity>>.
RateItems == {<<m, r>> : m \in {RatedMovie, RatedMovie + 1}, r \in {80, 100}}
BatchRaters == {1, MaxUserId + 1}
CreateItems == {<<t, popularity>> : t \in {101, 102}, popularity \in MoviePopularities}

\* The bodies: one item or more, no more than the calls mergeMap runs at once.
Batches(items) == SeqsOver(items, MaxCalls) \ {<<>>}

NoCallInFlight ==
    \A c \in Calls : ~InFlight(c) /\ ~MovieCallInFlight(c)

\* from(ratings).pipe(mergeMap(createOrUpdate$ ..., 3)): the items are
\* subscribed to in their order, which starts the three reads of each.
StartBatchRate(u, items) ==
    /\ NoCallInFlight
    /\ nextRatingId + Cardinality({i \in DOMAIN items : RatingsOfPair(u, items[i][1]) = {}})
          <= MaxRatingId + 1
    /\ calls' = [c \in Calls |->
                    IF c <= Len(items)
                    THEN [Idle EXCEPT !.pc = "reads", !.kind = "createOrUpdate",
                                      !.userId = u, !.movieId = items[c][1],
                                      !.rating = items[c][2],
                                      !.pending = {"movie", "user", "existingRating"},
                                      !.batch = c, !.batchSize = Len(items)]
                    ELSE Idle]
    /\ reply' = NoReply
    /\ UNCHANGED <<users, movies, ratings, nextRatingId, ratingsFrame>>

\* from(moviesDto).pipe(mergeMap(create$ ..., 5))
StartBatchCreate(items) ==
    /\ NoCallInFlight
    /\ nextMovieId + Cardinality({i \in DOMAIN items : MoviesOfTmdbId(items[i][1]) = {}})
          <= MaxMovieId + 1
    /\ mcalls' = [c \in Calls |->
                     IF c <= Len(items)
                     THEN [IdleMovieCall EXCEPT !.pc = "find", !.tmdbId = items[c][1],
                                                !.popularity = items[c][2],
                                                !.batch = c, !.batchSize = Len(items)]
                     ELSE IdleMovieCall]
    /\ mreply' = IdleMovieCall
    /\ UNCHANGED <<movies, nextMovieId, moviesFrame>>

\* One batch at a time, over the store of Init.
NextBatch ==
    \/ \E u \in BatchRaters, items \in Batches(RateItems) : StartBatchRate(u, items)
    \/ \E items \in Batches(CreateItems) : StartBatchCreate(items)
    \/ \E c \in Calls :
          \/ ForkJoinRead(c)
          \/ SaveRating(c)
          \/ StatsQuery(c)
          \/ StatsUpdate(c)
          \/ StatsFindOne(c)
          \/ FindMovieByTmdbId(c)
          \/ SaveNewMovie(c)

SpecBatch == Init /\ [][NextBatch]_vars

(***************************************************************************)
(* RatingsService.getMovieRatingStats$                                     *)
(***************************************************************************)
\* What a query leaves alone: every table and every call of the services.
queryFrame ==
    <<users, nextUserId, movies, ratings, nextRatingId, calls, reply, ucalls, ureply,
      requests, nextMovieId, boot, syncs, cronTicks, mcalls, mreply, watchlist,
      favorites,
      cache, hreply,
      merge>>

\* findByMovie$(movieId): the ratings of the movie, newest first (the ids
\* grow with createdAt).
RECURSIVE NewestFirst(_)
NewestFirst(S) ==
    IF S = {} THEN <<>>
    ELSE LET i == CHOOSE j \in S : \A k \in S : k <= j
         IN <<ratings[i]>> \o NewestFirst(S \ {i})

FindByMovie(movieId) == NewestFirst(RatingsOfMovie(movieId))

\* ratings.reduce((acc, r) => acc + Number(r.rating), 0), in tenths.
RECURSIVE SumOfList(_)
SumOfList(list) == IF list = <<>> THEN 0 ELSE Head(list).rating + SumOfList(Tail(list))

\* Math.floor(Number(rating.rating)) of a rating in tenths.
MathFloor(tenths) == tenths \div 10

\* acc[key] = (acc[key] || 0) + 1
Tally(acc, key) ==
    [k \in DOMAIN acc \cup {key} |->
        IF k = key THEN (IF key \in DOMAIN acc THEN acc[key] + 1 ELSE 1) ELSE acc[k]]

RECURSIVE Distribution(_, _)
Distribution(list, acc) ==
    IF list = <<>> THEN acc
    ELSE Distribution(Tail(list), Tally(acc, MathFloor(Head(list).rating)))

\* An average that drops the second decimal.
RoundedAverages_Floor(sum, count) == {sum \div count}

\* Math.round(average * 10) / 10, in tenths, of average = sum / count.  The sum
\* and the quotient are doubles: a mean that lies at the middle of two tenths
\* comes out just below or at the middle (1.1 and 4.6 give 2.8499999999999996,
\* 8.0 and 8.5 give 8.25), so that it is rounded to either of the two.
RoundedAverages(sum, count) ==
    IF (2 * sum) % (2 * count) = count
    THEN {sum \div count, sum \div count + 1}
    ELSE {(2 * sum + count) \div (2 * count)}

GetMovieRatingStats(movieId) ==
    /\ LET list == FindByMovie(movieId)
       IN IF Len(list) = 0
          THEN stats' = [movieId |-> movieId, average |-> 0, count |-> 0,
                         distribution |-> <<>>]
          ELSE \E average \in RoundedAverages(SumOfList(list), Len(list)) :
                  stats' = [movieId |-> movieId, average |-> average,
                            count |-> Len(list),
                            distribution |-> Distribution(list, <<>>)]
    /\ UNCHANGED <<scan, queryFrame>>

\* The ratings a decimal(2,1) column can hold that the statistics are taken
\* of, in tenths.
StoredRatingValues == {5, 75, 80, 84, 85, 99}

\* The ratings tables the statistics are taken of: every user is stored and
\* has at most one rating, of one of two movies.
RatingTables ==
    LET rows(i) == {NullRow} \cup
                   {[id |-> i, userId |-> i, movieId |-> m, rating |-> r,
                     review |-> NullText] :
                        m \in {RatedMovie, RatedMovie + 1}, r \in StoredRatingValues}
    IN {t \in [UserIds -> UNION {rows(i) : i \in UserIds}] :
           \A i \in UserIds : t[i] \in rows(i)}

InitStats ==
    /\ users = [i \in UserIds |-> StoredUser(i)]
    /\ nextUserId = MaxUserId + 2
    /\ ucalls = [c \in Calls |-> IdleUserCall]
    /\ ureply = IdleUserCall
    /\ movies = [m \in MovieIds |->
                    IF m # MissingMovie
                    THEN [NoMovie EXCEPT !.id = m, !.tmdbId = 100 + m, !.popularity = 505]
                    ELSE NoMovie]
    /\ nextMovieId = MissingMovie
    /\ ratings \in RatingTables
    /\ nextRatingId = MaxUserId + 2
    /\ calls = [c \in Calls |-> Idle]
    /\ reply = NoReply
    /\ IdleElsewhere

NextStats == \E movieId \in MovieIds : GetMovieRatingStats(movieId)

SpecStats == InitStats /\ [][NextStats]_vars

(***************************************************************************)
(* MoviesService.search$                                                   *)
(***************************************************************************)
\* Titles and search strings are sequences of characters.
Titles == {<<"A", "b">>, <<"a">>, <<"b", "a">>}
Queries == {<<>>, <<"a">>, <<"a", "B">>, <<"_", "a">>}
Limits == {1, 2}

Lower(ch) == CASE ch = "A" -> "a" [] ch = "B" -> "b" [] OTHER -> ch

\* text LIKE pattern, without regard to case: % stands for any characters,
\* _ for any one character.
RECURSIVE Like(_, _)
Like(text, pattern) ==
    IF pattern = <<>> THEN text = <<>>
    ELSE IF Head(pattern) = "%"
    THEN Like(text, Tail(pattern)) \/ (text # <<>> /\ Like(Tail(text), pattern))
    ELSE /\ text # <<>>
         /\ Head(pattern) = "_" \/ Lower(Head(pattern)) = Lower(Head(text))
         /\ Like(Tail(text), Tail(pattern))

\* where: { title: ILike(`%${query}%`) }
Matching(query) ==
    {m \in StoredMovies : Like(movies[m].title, <<"%">> \o query \o <<"%">>)}

\* An order that also sorts equal popularities, by id.
PopularityDescending_ThenId(S) ==
    {o \in Orderings(S) :
        \A i, j \in DOMAIN o :
            i < j => \/ movies[o[i]].popularity > movies[o[j]].popularity
                     \/ /\ movies[o[i]].popularity = movies[o[j]].popularity
                        /\ o[i] < o[j]}

\* order: { popularity: 'DESC' }: the orders the rows of S can be returned
\* in; the query says nothing about rows of equal popularity.
PopularityDescending(S) ==
    {o \in Orderings(S) :
        \A i, j \in DOMAIN o : i < j => movies[o[i]].popularity >= movies[o[j]].popularity}

Minimum(a, b) == IF a < b THEN a ELSE b

\* findAndCount({ where, skip: (page - 1) * limit, take: limit, order }): the
\* [data, total] pairs the query can return.
FindAndCount(query, page, limit) ==
    {[data |-> SubSeq(o, (page - 1) * limit + 1, Minimum(page * limit, Len(o))),
      total |-> Len(o)] : o \in PopularityDescending(Matching(query))}

\* search$(query, 1, limit), by a client that goes on to read the next pages.
SearchFirstPage(query, limit) ==
    /\ \E result \in FindAndCount(query, 1, limit) :
          scan' = [query |-> query, limit |-> limit, pages |-> <<result.data>>,
                   total |-> result.total]
    /\ UNCHANGED <<stats, queryFrame>>

\* search$(query, page, limit) of the next page, while the total says there
\* is one.
SearchNextPage ==
    /\ scan.limit # 0
    /\ Len(scan.pages) * scan.limit < scan.total
    /\ \E result \in FindAndCount(scan.query, Len(scan.pages) + 1, scan.limit) :
          scan' = [scan EXCEPT !.pages = Append(@, result.data), !.total = result.total]
    /\ UNCHANGED <<stats, queryFrame>>

\* Any movies table: every movie is stored, with a title and a popularity (in
\* tenths) of a few.
InitSearch ==
    /\ users = [i \in UserIds |-> NoUser]
    /\ nextUserId = 1
    /\ ucalls = [c \in Calls |-> IdleUserCall]
    /\ ureply = IdleUserCall
    /\ \E column \in [MovieIds -> Titles \X {505, 900}] :
          movies = [m \in MovieIds |->
                       [NoMovie EXCEPT !.id = m, !.tmdbId = 100 + m,
                                       !.title = column[m][1],
                                       !.popularity = column[m][2]]]
    /\ nextMovieId = MaxMovieId + 1
    /\ ratings = [i \in RatingIds |-> NullRow]
    /\ nextRatingId = 1
    /\ calls = [c \in Calls |-> Idle]
    /\ reply = NoReply
    /\ IdleElsewhere

NextSearch ==
    \/ \E query \in Queries, limit \in Limits : SearchFirstPage(query, limit)
    \/ SearchNextPage

SpecSearch == InitSearch /\ [][NextSearch]_vars

(***************************************************************************)
(* UsersService.remove$                                                    *)
(***************************************************************************)
StartRemoveUser(c, userId) ==
    /\ FreeUserSlot(c)
    /\ ucalls' = UserCallStarted(c, [IdleUserCall EXCEPT !.pc = "findOne", !.kind = "remove",
                                                        !.userId = userId])
    /\ ureply' = IdleUserCall
    /\ UNCHANGED <<users, nextUserId, usersFrame>>

\* userRepository.remove(user): the user's row is deleted, and with it the
\* rows that refer to it: its ratings (onDelete: 'CASCADE') and its rows of
\* the two join tables.
RemoveUser(c) ==
    /\ ucalls[c].pc = "removeUser"
    /\ LET u == ucalls[c].userId
       IN /\ users' = [users EXCEPT ![u] = NoUser]
          /\ ratings' = [i \in DOMAIN ratings |->
                            IF ratings[i].userId = u THEN NullRow ELSE ratings[i]]
          /\ watchlist' = [watchlist EXCEPT ![u] = {}]
          /\ favorites' = [favorites EXCEPT ![u] = {}]
    /\ UserContinue(c, Done(ucalls[c], "ok"))
    /\ UNCHANGED <<nextUserId, movies, nextRatingId, calls, reply, requests, nextMovieId,
                   boot, syncs, cronTicks, mcalls, mreply, stats, scan, cache, hreply,
                   merge>>

\* A stored movie with the statistics updateRatingStatistics$ stores for its
\* ratings; a movie that was never rated has no average.
MovieWithStatistics(m) ==
    LET S == RatingsOfMovie(m)
    IN [NoMovie EXCEPT !.id = m, !.tmdbId = 100 + m, !.popularity = 505,
                       !.userRatingCount = Cardinality(S),
                       !.userRatingAverage =
                           IF S = {} THEN NullAverage
                           ELSE AverageToStore(SumRatings(S), Cardinality(S))]

\* Every user is stored; the ratings are any of RatingTables, and the movies
\* hold the statistics of their ratings.
InitRemoveUser ==
    /\ users = [i \in UserIds |-> StoredUser(i)]
    /\ nextUserId = MaxUserId + 2
    /\ ucalls = [c \in Calls |-> IdleUserCall]
    /\ ureply = IdleUserCall
    /\ ratings \in RatingTables
    /\ nextRatingId = MaxUserId + 2
    /\ movies = [m \in MovieIds |-> IF m # MissingMovie THEN MovieWithStatistics(m)
                                    ELSE NoMovie]
    /\ nextMovieId = MissingMovie
    /\ calls = [c \in Calls |-> Idle]
    /\ reply = NoReply
    /\ IdleElsewhere

\* The calls are made one at a time.
NextRemoveUser ==
    \E c \in {CHOOSE d \in Calls : \A e \in Calls : d <= e} :
        \/ \E u \in UserIds : StartRemoveUser(c, u)
        \/ FindOneUser(c)
        \/ RemoveUser(c)

SpecRemoveUser == InitRemoveUser /\ [][NextRemoveUser]_vars

(***************************************************************************)
(* TmdbSyncService.saveMovie next to the rating operations: the sync of an *)
(* instance that starts up, and the rating calls another instance serves   *)
(* from the same store.                                                    *)
(***************************************************************************)
NextSyncAndRatings ==
    \/ ModuleInit
    \/ GenresSynced
    \/ InitialMoviesSynced
    \/ \E s \in SyncIds :
          \/ SyncGenres(s)
          \/ FetchMovies(s)
          \/ FindExistingMovie(s)
          \/ SaveMovie(s)
          \/ Delay(s)
    \/ \E c \in {CHOOSE d \in Calls : \A e \in Calls : d <= e} :
          \/ \E q \in CreateRequests : StartCreateOrUpdate(c, q[1], q[2], q[3], q[4])
          \/ ForkJoinRead(c)
          \/ SaveRating(c)
          \/ StatsQuery(c)
          \/ StatsUpdate(c)
          \/ StatsFindOne(c)

SpecSyncAndRatings == Init /\ [][NextSyncAndRatings]_vars

(***************************************************************************)
(* UsersController: PATCH /users/:id and DELETE /users/:id                 *)
(***************************************************************************)
\* The first names an UpdateUserDto carries.
FirstNames == {"Ann", "Eve"}

\* @UseGuards(JwtAuthGuard): the request carries the token of a stored user,
\* the authenticated caller.
JwtAuthGuard(caller) == caller \in StoredUsers

\* update(@Param('id') id, @Body() updateUserDto): usersService.update$(id,
\* updateUserDto).
UsersController_update(c, caller, id, firstName) ==
    /\ JwtAuthGuard(caller)
    /\ FreeUserSlot(c)
    /\ ucalls' = UserCallStarted(c, [IdleUserCall EXCEPT !.pc = "findOne", !.kind = "update",
                                                        !.userId = id, !.caller = caller,
                                                        !.firstName = firstName])
    /\ ureply' = IdleUserCall
    /\ UNCHANGED <<users, nextUserId, usersFrame>>

\* remove(@Param('id') id): usersService.remove$(id).
UsersController_remove(c, caller, id) ==
    /\ JwtAuthGuard(caller)
    /\ FreeUserSlot(c)
    /\ ucalls' = UserCallStarted(c, [IdleUserCall EXCEPT !.pc = "findOne", !.kind = "remove",
                                                        !.userId = id, !.caller = caller])
    /\ ureply' = IdleUserCall
    /\ UNCHANGED <<users, nextUserId, usersFrame>>

\* update$: Object.assign(user, updateUserDto) and userRepository.save(user).
\* The other columns and the lists are written as loaded; no other call runs
\* between the load and the save, and the loaded password is left as it is.
UpdateUser(c) ==
    /\ ucalls[c].pc = "updateUser"
    /\ LET call == ucalls[c]
           row == [call.user EXCEPT !.firstName = call.firstName]
       IN /\ users' = [users EXCEPT ![row.id] = row]
          /\ UserContinue(c, Done([call EXCEPT !.user = row], "ok"))
    /\ UNCHANGED <<nextUserId, usersFrame>>

\* The requests are made one at a time, by any authenticated user for any id.
NextAccounts ==
    \E c \in {CHOOSE d \in Calls : \A e \in Calls : d <= e} :
        \/ \E caller \in UserIds, id \in UserIds, firstName \in FirstNames :
              UsersController_update(c, caller, id, firstName)
        \/ \E caller \in UserIds, id \in UserIds : UsersController_remove(c, caller, id)
        \/ FindOneUser(c)
        \/ UpdateUser(c)
        \/ RemoveUser(c)

SpecAccounts == InitPasswords /\ [][NextAccounts]_vars

(***************************************************************************)
(* The mergeMap of batchRate$ and batchCreate$: which items run at a time. *)
(* An item's createOrUpdate$ / create$ is taken as a whole here: it is     *)
(* subscribed to, and it completes, with its result or, through its        *)
(* catchError, with null.                                                  *)
(***************************************************************************)
MaxItems == 6

mergeFrame ==
    <<users, nextUserId, movies, ratings, nextRatingId, calls, reply, ucalls, ureply,
      requests, nextMovieId, boot, syncs, cronTicks, mcalls, mreply, watchlist, favorites,
      stats, scan, cache, hreply>>

RateConcurrency == 3
CreateConcurrency == 5

\* The second argument of mergeMap.
Concurrent(kind) == IF kind = "batchRate" THEN RateConcurrency ELSE CreateConcurrency

\* A mergeMap that subscribes to every item at once.
HasRoom_Always(active, concurrent) == TRUE

\* mergeMap: an item is subscribed to while fewer than concurrent inner
\* observables are active, and buffered otherwise.
HasRoom(active, concurrent) == Cardinality(active) < concurrent

\* The items of 1..n that from(array) hands to mergeMap, in order: those
\* subscribed to at once and those buffered.
RECURSIVE Emit(_, _, _)
Emit(batch, i, concurrent) ==
    IF i > batch.items THEN batch
    ELSE Emit(IF HasRoom(batch.active, concurrent)
              THEN [batch EXCEPT !.active = @ \cup {i}]
              ELSE [batch EXCEPT !.buffer = Append(@, i)],
              i + 1, concurrent)

\* batchRate$(userId, ratings) / batchCreate$(moviesDto) is subscribed to,
\* with a body of n items.
SubscribeBatch(kind, n) ==
    /\ merge.pc # "running"
    /\ merge' = Emit([NoBatch EXCEPT !.pc = "running", !.kind = kind, !.items = n], 1,
                     Concurrent(kind))
    /\ UNCHANGED mergeFrame

\* The inner observable of item i completes, with a result or with the null
\* of its catchError.  mergeMap then subscribes to the buffered items it has
\* room for, and completes (toArray emits) when nothing is left.
InnerCompletes(i) ==
    /\ merge.pc = "running"
    /\ i \in merge.active
    /\ LET left == [merge EXCEPT !.active = @ \ {i}, !.finished = Append(@, i)]
           next == IF left.buffer # <<>> /\ HasRoom(left.active, Concurrent(merge.kind))
                   THEN [left EXCEPT !.active = @ \cup {Head(left.buffer)},
                                     !.buffer = Tail(@)]
                   ELSE left
       IN merge' = IF next.active = {} /\ next.buffer = <<>>
                   THEN [next EXCEPT !.pc = "complete"]
                   ELSE next
    /\ UNCHANGED mergeFrame

NextMerge ==
    \/ \E kind \in {"batchRate", "batchCreate"}, n \in 1..MaxItems : SubscribeBatch(kind, n)
    \/ \E i \in 1..MaxItems : InnerCompletes(i)

SpecMerge == Init /\ [][NextMerge]_vars

\* Every repository promise of an item settles, so an active item completes.
FairSpecMerge == SpecMerge /\ WF_vars(NextMerge)

(***************************************************************************)
(* The HTTP layer.  A controller method returns the observable of the      *)
(* service; an error that is an HttpException is answered with its status, *)
(* any other error (Error, QueryFailedError) with 500.                     *)
(***************************************************************************)
HttpStatus(res) ==
    CASE res = "ok" -> 200
      [] res \in {"UnauthorizedException: Invalid credentials",
                  "UnauthorizedException: Invalid current password"} -> 401
      [] res \in {"NotFoundException: Movie", "NotFoundException: User",
                  "NotFoundException: Rating"} -> 404
      [] res \in {"ConflictException: Username already exists",
                  "ConflictException: Email already exists"} -> 409
      [] OTHER -> 500

(***************************************************************************)
(* MoviesController behind the CacheInterceptor: GET, PATCH and DELETE     *)
(* /movies/:id.  The interceptor answers a GET from the cache when the     *)
(* cache holds the request's URL, and stores the body of a GET that the    *)
(* handler answered; other methods go to the handler.  The requests are    *)
(* handled one after the other.                                            *)
(***************************************************************************)
cacheFrame ==
    <<users, nextUserId, nextRatingId, calls, reply, ucalls, ureply, requests,
      nextMovieId, boot, syncs, cronTicks, mcalls, mreply, stats, scan,
      merge>>

\* An interceptor that does not look into the cache.
IsCached_Never(id) == FALSE

\* CacheInterceptor: const value = await this.cacheManager.get(key), the key
\* being the URL of the GET request.
IsCached(id) == cache[id].id # 0

\* @Get(':id') @CacheTTL(300) findOne: moviesService.findOne$(id).  A body
\* is cached; an error (404) is not.
MoviesController_findOne(id) ==
    /\ IF IsCached(id)
       THEN /\ hreply' = [method |-> "GET", id |-> id, status |-> HttpStatus("ok"),
                          body |-> cache[id], cached |-> TRUE]
            /\ cache' = cache
       ELSE IF movies[id].id # 0
       THEN /\ hreply' = [method |-> "GET", id |-> id, status |-> HttpStatus("ok"),
                          body |-> movies[id], cached |-> FALSE]
            /\ cache' = [cache EXCEPT ![id] = movies[id]]
       ELSE /\ hreply' = [method |-> "GET", id |-> id,
                          status |-> HttpStatus("NotFoundException: Movie"),
                          body |-> NoMovie, cached |-> FALSE]
            /\ cache' = cache
    /\ UNCHANGED <<movies, ratings, watchlist, favorites, cacheFrame>>

\* @Patch(':id') update: moviesService.update$(id, updateMovieDto), that is
\* findOne$(id) and movieRepository.save({ ...movie, ...updateMovieDto }).
MoviesController_update(id, title) ==
    /\ IF movies[id].id # 0
       THEN /\ movies' = [movies EXCEPT ![id].title = title]
            /\ hreply' = [method |-> "PATCH", id |-> id, status |-> HttpStatus("ok"),
                          body |-> movies'[id], cached |-> FALSE]
       ELSE /\ movies' = movies
            /\ hreply' = [method |-> "PATCH", id |-> id,
                          status |-> HttpStatus("NotFoundException: Movie"),
                          body |-> NoMovie, cached |-> FALSE]
    /\ UNCHANGED <<cache, ratings, watchlist, favorites, cacheFrame>>

\* @Delete(':id') remove: moviesService.remove$(id), that is findOne$(id) and
\* movieRepository.remove(movie); the movie's ratings (onDelete: 'CASCADE')
\* and its rows of the join tables go with it.
MoviesController_remove(id) ==
    /\ IF movies[id].id # 0
       THEN /\ movies' = [movies EXCEPT ![id] = NoMovie]
            /\ ratings' = [i \in DOMAIN ratings |->
                              IF ratings[i].movieId = id THEN NullRow ELSE ratings[i]]
            /\ watchlist' = [u \in UserIds |-> watchlist[u] \ {id}]
            /\ favorites' = [u \in UserIds |-> favorites[u] \ {id}]
            /\ hreply' = [method |-> "DELETE", id |-> id, status |-> HttpStatus("ok"),
                          body |-> NoMovie, cached |-> FALSE]
       ELSE /\ UNCHANGED <<movies, ratings, watchlist, favorites>>
            /\ hreply' = [method |-> "DELETE", id |-> id,
                          status |-> HttpStatus("NotFoundException: Movie"),
                          body |-> NoMovie, cached |-> FALSE]
    /\ UNCHANGED <<cache, cacheFrame>>

\* The entry's time to live (@CacheTTL(300)) has passed.
CacheExpires(id) ==
    /\ cache[id].id # 0
    /\ cache' = [cache EXCEPT ![id] = NoMovie]
    /\ UNCHANGED <<hreply, movies, ratings, watchlist, favorites, cacheFrame>>

\* The movies of InitLists behind an empty cache.
NextCache ==
    \E id \in MovieIds :
        \/ MoviesController_findOne(id)
        \/ \E title \in Titles : MoviesController_update(id, title)
        \/ MoviesController_remove(id)
        \/ CacheExpires(id)

SpecCache == InitLists /\ [][NextCache]_vars

(***************************************************************************)
(* Properties of the services.                                             *)
(***************************************************************************)
Completed(call) == call.pc = "done"
Succeeded(call) == call.pc = "done" /\ call.res = "ok"

\* C1: in every reachable state at most one rating is stored for each
\* (userId, movieId) pair, whatever the interleaving of the createOrUpdate$,
\* update$ and remove$ calls.
C1_OneRatingPerPair ==
    \A u \in UserIds, m \in MovieIds : Cardinality(RatingsOfPair(u, m)) <= 1

\* Two createOrUpdate$ calls for one pair both found no rating and both went on
\* to insert: the store refused the second insert.
C1_SecondInsertRefused ==
    /\ Completed(reply)
    /\ reply.kind = "createOrUpdate"
    /\ reply.res = "QueryFailedError: duplicate key"
    /\ RatingsOfPair(reply.userId, reply.movieId) # {}

C3_ForeignRatingUntouched ==
    [][\A c \in Calls :
          (/\ calls[c].pc = "findOne"
           /\ calls'[c].pc # "findOne"
           /\ ratings[calls[c].ratingId].id # 0
           /\ ratings[calls[c].ratingId].userId # calls[c].userId)
          => /\ Completed(reply')
             /\ reply'.res = IF calls[c].kind = "update"
                             THEN "Error: You can only update your own ratings"
                             ELSE "Error: You can only delete your own ratings"
             /\ ~reply'.statsInvoked
             /\ calls'[c] = Idle
             /\ ratings' = ratings
             /\ movies' = movies]_vars

\* An update$ of a stored rating by a user who does not own it was refused.
C3_UpdateOfForeignRatingRefused ==
    /\ Completed(reply)
    /\ reply.kind = "update"
    /\ reply.res = "Error: You can only update your own ratings"
    /\ ratings[reply.ratingId].id # 0
    /\ ratings[reply.ratingId].userId # reply.userId

\* C9: the step in which createOrUpdate$ has its three reads together and the
\* movie or the user does not exist ends the call with NotFoundException, naming
\* the movie when the movie is missing (the user missing too or not) and the
\* user when only the user is missing; it changes no rating and no movie, and
\* the call has not invoked updateRatingStatistics$ and takes no further step.
C9_MissingMovieOrUser ==
    [][\A c \in Calls :
          (/\ calls[c].pc = "reads"
           /\ calls'[c].pc # "reads"
           /\ (movies[calls[c].movieId].id = 0 \/ users[calls[c].userId].id = 0))
          => /\ Completed(reply')
             /\ reply'.res = IF movies[calls[c].movieId].id = 0
                             THEN "NotFoundException: Movie"
                             ELSE "NotFoundException: User"
             /\ ~reply'.statsInvoked
             /\ calls'[c] = Idle
             /\ ratings' = ratings
             /\ nextRatingId' = nextRatingId
             /\ movies' = movies]_vars

\* A createOrUpdate$ for a missing movie by a missing user was answered.
C9_MovieAndUserMissing ==
    /\ Completed(reply)
    /\ reply.kind = "createOrUpdate"
    /\ movies[reply.movieId].id = 0
    /\ users[reply.userId].id = 0
    /\ reply.res = "NotFoundException: Movie"

\* C8 as stated: the save of createOrUpdate$(u, m, dto), when a rating for
\* (u, m) is stored, sets that rating's value to dto.rating, sets its review to
\* dto.review when one is given and otherwise keeps the previous review, keeps
\* its id, userId and movieId and the number of stored ratings; when none is
\* stored it adds exactly one rating for (u, m) with dto's value and review.
C8_UpdatesOrAddsOne ==
    [][\A c \in Calls :
          (/\ calls[c].kind = "createOrUpdate"
           /\ calls[c].pc = "save"
           /\ calls'[c].pc # "save")
          => LET dto == calls[c]
                 stored == RatingsOfPair(dto.userId, dto.movieId)
             IN IF stored # {}
                THEN \A i \in stored :
                        /\ ratings' =
                              [ratings EXCEPT
                                  ![i].rating = dto.rating,
                                  ![i].review = IF dto.review # Undefined THEN dto.review
                                                ELSE @]
                        /\ ratings'[i].id = i
                ELSE \E i \in RatingIds \ StoredRatings :
                        ratings' =
                          [ratings EXCEPT
                              ![i] = [id |-> i, userId |-> dto.userId,
                                      movieId |-> dto.movieId, rating |-> dto.rating,
                                      review |-> IF dto.review # Undefined THEN dto.review
                                                 ELSE NullText]]]_vars

\* C8 for the ratings the column holds and the reviews that are not empty: this
\* much of the statement the save does.
C8_UpdatesOrAddsOneBelowTen ==
    [][\A c \in Calls :
          (/\ calls[c].kind = "createOrUpdate"
           /\ calls[c].pc = "save"
           /\ calls'[c].pc # "save"
           /\ calls[c].rating < 100
           /\ calls[c].review # "")
          => LET dto == calls[c]
                 stored == RatingsOfPair(dto.userId, dto.movieId)
             IN IF stored # {}
                THEN \A i \in stored :
                        /\ ratings' =
                              [ratings EXCEPT
                                  ![i].rating = dto.rating,
                                  ![i].review = IF dto.review # Undefined THEN dto.review
                                                ELSE @]
                        /\ ratings'[i].id = i
                ELSE \E i \in RatingIds \ StoredRatings :
                        ratings' =
                          [ratings EXCEPT
                              ![i] = [id |-> i, userId |-> dto.userId,
                                      movieId |-> dto.movieId, rating |-> dto.rating,
                                      review |-> IF dto.review # Undefined THEN dto.review
                                                 ELSE NullText]]]_vars

\* createOrUpdate$ with the rating 10 that CreateRatingDto accepts failed in
\* the store.
C8_RatingTenRefused ==
    /\ Completed(reply)
    /\ reply.kind = "createOrUpdate"
    /\ reply.rating = 100
    /\ reply.res = "QueryFailedError: numeric field overflow"

\* C4: a create$ that ran with no other call in flight fails with
\* ConflictException 'Username already exists' when a stored user has its
\* username (the email taken too or not), with ConflictException 'Email already
\* exists' when only its email is taken, both with the users unchanged, and
\* otherwise adds exactly one user, with that username and email.
C4_ConflictOrOneUserMore ==
    [][(Completed(ureply') /\ ureply'.kind = "create" /\ ureply'.alone)
          => LET name == ureply'.username
                 mail == ureply'.email
             IN IF UsersNamed(name) # {}
                THEN /\ ureply'.res = "ConflictException: Username already exists"
                     /\ users' = users
                ELSE IF UsersMailed(mail) # {}
                THEN /\ ureply'.res = "ConflictException: Email already exists"
                     /\ users' = users
                ELSE /\ ureply'.res = "ok"
                     /\ \E i \in UserIds \ StoredUsers :
                           /\ \A j \in UserIds \ {i} : users'[j] = users[j]
                           /\ users'[i].id = i
                           /\ users'[i].username = name
                           /\ users'[i].email = mail]_vars

\* A create$ whose username and email are both taken was refused for its
\* username.
C4_BothTaken ==
    /\ Completed(ureply)
    /\ ureply.kind = "create"
    /\ ureply.alone
    /\ UsersNamed(ureply.username) # {}
    /\ UsersMailed(ureply.email) # {}
    /\ ureply.res = "ConflictException: Username already exists"

\* C5: validateUser$ and login$ succeed only with a user found by the given
\* username or email whose password the given password validates against; with
\* no such user and with a password that does not validate they fail with the
\* same UnauthorizedException 'Invalid credentials'.
C5_InvalidCredentials ==
    (Completed(ureply) /\ ureply.kind \in {"validateUser", "login"}) =>
        /\ ureply.res = "ok" =>
              /\ ureply.user.id # 0
              /\ ureply.username \in {ureply.user.username, ureply.user.email}
              /\ ValidatePassword(ureply.user.password, ureply.password)
        /\ ureply.res # "ok" =>
              /\ ureply.res = "UnauthorizedException: Invalid credentials"
              /\ \/ ureply.user.id = 0
                 \/ ~ValidatePassword(ureply.user.password, ureply.password)

\* A login$ for an account that does not exist, while other accounts do, failed.
C5_UnknownAccount ==
    /\ Completed(ureply)
    /\ ureply.kind = "login"
    /\ ureply.user.id = 0
    /\ StoredUsers # {}
    /\ ureply.res = "UnauthorizedException: Invalid credentials"

\* C10 as stated: of the create$ calls that carry one username (or one email),
\* whatever their interleaving, one creates the user, so no two stored users
\* share a username or an email, and every other one fails with
\* ConflictException.
C10_LosersGetConflict ==
    /\ \A i, j \in StoredUsers :
          (users[i].username = users[j].username \/ users[i].email = users[j].email)
              => i = j
    /\ (Completed(ureply) /\ ureply.kind = "create" /\ ureply.res # "ok") =>
          ureply.res \in {"ConflictException: Username already exists",
                          "ConflictException: Email already exists"}

\* Of two concurrent create$ calls with one username, one created the user and
\* the other failed in the store's unique index.
C10_LoserGetsQueryFailed ==
    /\ Completed(ureply)
    /\ ureply.kind = "create"
    /\ ureply.res = "QueryFailedError: duplicate key"
    /\ Cardinality(UsersNamed(ureply.username)) = 1

\* C6: a request makes at most 4 HTTP attempts, its k-th retry follows a wait of
\* 1000 * k ms, a successful attempt is its last, and the error reaches the
\* caller only with 4 failed attempts.
C6_RetryWithLinearBackoff ==
    \A r \in Requests :
        LET q == requests[r]
            attempts == Len(q.log)
        IN /\ attempts <= 4
           /\ \A k \in 1..Len(q.delays) : q.delays[k] = 1000 * k
           /\ Len(q.delays) = IF q.pc = "done" THEN attempts - 1 ELSE attempts
           /\ \A i \in 1..attempts : q.log[i] = "ok" => (i = attempts /\ q.res = "ok")
           /\ q.res = "ok" => (q.pc = "done" /\ attempts >= 1 /\ q.log[attempts] = "ok")
           /\ q.res = "error" =>
                 (q.pc = "done" /\ attempts = 4 /\ \A i \in 1..4 : q.log[i] = "error")

\* A request failed four times, after waits of 1, 2 and 3 seconds.
C6_FourthFailure ==
    \E r \in Requests :
        /\ requests[r].res = "error"
        /\ requests[r].delays = <<1000, 2000, 3000>>

\* C7 as stated: every cron tick leads to the fetch of TMDB's popular movies
\* and to the end of the saves of its observable.
C7_EveryTickSyncs ==
    \A t \in 1..MaxTicks :
        (cronTicks >= t) ~>
            (\E s \in DOMAIN syncs :
                /\ syncs[s].method = "syncPopularMovies"
                /\ syncs[s].pc \in {"complete", "error"})

\* The scheduler ticked and has the observable that syncPopularMovies returned,
\* which nothing subscribed to.
C7_TickWithoutSubscriber ==
    /\ cronTicks = MaxTicks
    /\ \A s \in DOMAIN syncs :
          syncs[s].method = "syncPopularMovies" =>
              (~syncs[s].subscribed /\ syncs[s].pc = "fetch")

\* C11 as stated: an update$ or remove$ of a stored rating that belongs to
\* another user is answered with HTTP 403.
C11_ForeignRatingForbidden ==
    (/\ Completed(reply)
     /\ reply.kind \in {"update", "remove"}
     /\ reply.ratingId # 0
     /\ ratings[reply.ratingId].id # 0
     /\ ratings[reply.ratingId].userId # reply.userId)
    => HttpStatus(reply.res) = 403

\* A remove$ of another user's rating was answered with the status of a plain
\* Error.
C11_ForeignRemoveAnswered500 ==
    /\ Completed(reply)
    /\ reply.kind = "remove"
    /\ reply.ratingId # 0
    /\ ratings[reply.ratingId].id # 0
    /\ ratings[reply.ratingId].userId # reply.userId
    /\ reply.res = "Error: You can only delete your own ratings"
    /\ HttpStatus(reply.res) = 500

\* C12 as stated: a create$ that ran with no other call in flight, for a tmdbId
\* that is stored, is answered with HTTP 409 and leaves the movies unchanged;
\* for a tmdbId that is not stored it adds exactly one movie, with that tmdbId.
C12_ConflictOrOneMovieMore ==
    [][(Completed(mreply') /\ mreply'.alone)
          => IF MoviesOfTmdbId(mreply'.tmdbId) # {}
             THEN HttpStatus(mreply'.res) = 409 /\ movies' = movies
             ELSE \E m \in MovieIds \ StoredMovies :
                     /\ \A n \in MovieIds \ {m} : movies'[n] = movies[n]
                     /\ movies'[m].id = m
                     /\ movies'[m].tmdbId = mreply'.tmdbId]_vars

\* A create$ for a stored tmdbId failed with a plain Error, answered with 500,
\* and left the movies as they were.
C12_ExistingAnswered500 ==
    /\ Completed(mreply)
    /\ mreply.alone
    /\ mreply.existing
    /\ mreply.res = "Error: Movie already exists"
    /\ HttpStatus(mreply.res) = 500
    /\ Cardinality(MoviesOfTmdbId(mreply.tmdbId)) = 1

\* C13 as stated: a changePassword$(u, old, new) whose old password validates
\* succeeds, and with new different from old the stored password then validates
\* new and no longer old (so validateUser$ succeeds with new and fails with
\* old), for every new password; one whose old password does not validate fails
\* with UnauthorizedException and leaves the users unchanged.
C13_NewPasswordReplacesOld ==
    [][(Completed(ureply') /\ ureply'.kind = "changePassword" /\ users[ureply'.userId].id # 0)
          => LET u == ureply'.userId
                 old == ureply'.password
                 new == ureply'.newPassword
             IN IF ValidatePassword(users[u].password, old)
                THEN /\ ureply'.res = "ok"
                     /\ new # old =>
                            /\ ValidatePassword(users'[u].password, new)
                            /\ ~ValidatePassword(users'[u].password, old)
                ELSE /\ ureply'.res = "UnauthorizedException: Invalid current password"
                     /\ users' = users]_vars

\* A changePassword$ to "$2b$Passw0rd" succeeded and validateUser$ with that
\* password then failed.
C13_NewPasswordRefused ==
    /\ Completed(ureply)
    /\ ureply.kind = "validateUser"
    /\ ureply.password = [prefix |-> "$2b$", rest |-> "Passw0rd"]
    /\ ureply.user.password = [hashed |-> FALSE, prefix |-> "$2b$", rest |-> "Passw0rd"]
    /\ ureply.res = "UnauthorizedException: Invalid credentials"

\* C14: an addToWatchlist$ / addToFavorites$ of a movie that is already in the
\* list returns the user with the list as loaded and writes nothing, and the
\* list of a user returned by any call holds each movie id at most once.
C14_AddIsIdempotent ==
    [][(Succeeded(ureply') /\ ureply'.kind \in ListKinds)
          => LET call == ureply'
                 u == call.userId
             IN /\ Distinct(call.watchlist) /\ Distinct(call.favorites)
                /\ (call.kind = "addToWatchlist" /\ call.movieId \in watchlist[u])
                      => /\ ~call.wrote
                         /\ call.watchlist = call.loaded.watchlist
                         /\ watchlist' = watchlist /\ favorites' = favorites
                /\ (call.kind = "addToFavorites" /\ call.movieId \in favorites[u])
                      => /\ ~call.wrote
                         /\ call.favorites = call.loaded.favorites
                         /\ watchlist' = watchlist /\ favorites' = favorites]_vars

\* A movie was added to a watchlist that already held it, next to another one.
C14_AddedTwice ==
    /\ Succeeded(ureply)
    /\ ureply.kind = "addToWatchlist"
    /\ ~ureply.wrote
    /\ Len(ureply.watchlist) = 2
    /\ IsInList(ureply.loaded.watchlist, ureply.movieId)

\* C15: removeFromWatchlist$(u, m) / removeFromFavorites$(u, m) succeeds for a
\* stored user, returns the loaded list without m and with the other entries
\* in their order, stores the same movies, leaves a list that did not hold m
\* as it was, and never changes the other list; an add stores the list with
\* m added, so that removing m again restores it.
C15_RemoveDropsOnlyTheMovie ==
    [][(Completed(ureply') /\ ureply'.kind \in ListKinds /\ users[ureply'.userId].id # 0)
          => LET call == ureply'
                 u == call.userId
                 m == call.movieId
             IN /\ call.kind = "removeFromWatchlist"
                      => /\ call.res = "ok"
                         /\ call.watchlist = SelectSeq(call.loaded.watchlist, LAMBDA id : id # m)
                         /\ watchlist' = [watchlist EXCEPT ![u] = watchlist[u] \ {m}]
                         /\ call.favorites = call.loaded.favorites
                         /\ favorites' = favorites
                /\ call.kind = "removeFromFavorites"
                      => /\ call.res = "ok"
                         /\ call.favorites = SelectSeq(call.loaded.favorites, LAMBDA id : id # m)
                         /\ favorites' = [favorites EXCEPT ![u] = favorites[u] \ {m}]
                         /\ call.watchlist = call.loaded.watchlist
                         /\ watchlist' = watchlist
                /\ (call.kind = "addToWatchlist" /\ call.res = "ok")
                      => /\ watchlist' = [watchlist EXCEPT ![u] = watchlist[u] \cup {m}]
                         /\ favorites' = favorites
                /\ (call.kind = "addToFavorites" /\ call.res = "ok")
                      => /\ favorites' = [favorites EXCEPT ![u] = favorites[u] \cup {m}]
                         /\ watchlist' = watchlist]_vars

\* A movie was removed from between two others of a watchlist, with a
\* favorite stored.
C15_RemovedFromTheMiddle ==
    /\ Succeeded(ureply)
    /\ ureply.kind = "removeFromWatchlist"
    /\ Len(ureply.loaded.watchlist) = 3
    /\ ureply.loaded.watchlist[2] = ureply.movieId
    /\ Len(ureply.watchlist) = 2
    /\ favorites[ureply.userId] # {}

\* C16: a batchRate$ / batchCreate$ completes once each of its items is done,
\* whatever the items' results: every item has run to its end (none was
\* aborted), the emitted array holds exactly the results of the items that
\* succeeded, in the order of their completion, and what those items saved
\* is stored.
C16_BatchCollectsSuccesses ==
    LET Collects(r) ==
            /\ Len(r.outcomes) = r.batchSize
            /\ {r.outcomes[i].item : i \in DOMAIN r.outcomes} = 1..r.batchSize
            /\ LET succeeded == SelectSeq(r.outcomes, LAMBDA o : o.res = "ok")
               IN r.emitted = [i \in DOMAIN succeeded |-> succeeded[i].saved]
            /\ \A i \in DOMAIN r.emitted : r.emitted[i].id # 0
        Pending(table) ==
            \A c \in Calls : table[c].pc = "collected"
                                => \E d \in Calls : table[d].batch # 0 /\ table[d].pc # "collected"
    IN /\ Pending(calls) /\ Pending(mcalls)
       /\ reply.batchDone
             => /\ Collects(reply)
                /\ \A i \in DOMAIN reply.emitted :
                      LET row == reply.emitted[i]
                      IN /\ ratings[row.id].userId = row.userId
                         /\ ratings[row.id].movieId = row.movieId
       /\ mreply.batchDone
             => /\ Collects(mreply)
                /\ \A i \in DOMAIN mreply.emitted :
                      movies[mreply.emitted[i].id].tmdbId = mreply.emitted[i].tmdbId

\* A batchRate$ of two items completed: the item that was done first had
\* failed, the other one succeeded and is the one result.
C16_FailedItemThenSavedItem ==
    /\ reply.batchDone
    /\ reply.batchSize = 2
    /\ reply.outcomes[1].res # "ok"
    /\ reply.outcomes[2].res = "ok"
    /\ Len(reply.emitted) = 1

\* C17: the statistics of a movie hold the number of its ratings as count, a
\* tenth nearest to their mean as average, and a distribution whose key k
\* counts the ratings r with floor(r) = k (no key without a rating), so that
\* its values sum to count; a movie without ratings has 0, 0 and the empty
\* distribution.
C17_StatsOfStoredRatings ==
    stats.movieId # 0 =>
        LET S == RatingsOfMovie(stats.movieId)
            n == Cardinality(S)
            d == stats.distribution
            RECURSIVE Total(_)
            Total(K) == IF K = {} THEN 0
                        ELSE LET k == CHOOSE x \in K : TRUE IN d[k] + Total(K \ {k})
        IN /\ stats.count = n
           /\ n = 0 => stats.average = 0 /\ d = <<>>
           /\ n > 0 =>
                 /\ 2 * (stats.average * n - SumRatings(S)) <= n
                 /\ 2 * (SumRatings(S) - stats.average * n) <= n
           /\ DOMAIN d = {ratings[i].rating \div 10 : i \in S}
           /\ \A k \in DOMAIN d :
                 d[k] = Cardinality({i \in S : ratings[i].rating \div 10 = k})
           /\ Total(DOMAIN d) = n

\* The statistics of a movie rated 8.0, 8.4 and 9.9: average 8.8 (of the mean
\* 8.766...), a count of 3, two ratings under key 8 and one under key 9.
C17_ThreeRatingsInTwoKeys ==
    /\ stats.count = 3
    /\ {ratings[i].rating : i \in RatingsOfMovie(stats.movieId)} = {80, 84, 99}
    /\ stats.average = 88
    /\ stats.distribution = [k \in {8, 9} |-> IF k = 8 THEN 2 ELSE 1]

\* C18 as stated: a client that reads the pages 1, 2, ... of a search until
\* the total is covered, with no write in between, has received every
\* matching movie exactly once.
C18_EveryMatchOnce ==
    (scan.limit # 0 /\ Len(scan.pages) * scan.limit >= scan.total)
        => LET Occurrences(m) ==
                   Cardinality({<<p, i>> \in (DOMAIN scan.pages) \X (1..scan.limit) :
                                   i <= Len(scan.pages[p]) /\ scan.pages[p][i] = m})
           IN \A m \in StoredMovies :
                 Occurrences(m) = IF m \in Matching(scan.query) THEN 1 ELSE 0

\* Two pages of one movie each were read of a search that two movies of equal
\* popularity match: both pages hold the same movie.
C18_SameMovieOnTwoPages ==
    /\ scan.limit = 1
    /\ scan.total = 2
    /\ Len(scan.pages) = 2
    /\ scan.pages[1] = scan.pages[2]
    /\ \A m \in Matching(scan.query) : movies[m].popularity = 505

\* C19 as stated: whenever no rating operation is in flight, every stored
\* movie's userRatingCount is the number of its stored ratings and its
\* userRatingAverage is their mean (as the column holds it; a movie that was
\* never rated has no average).
C19_StatisticsMatchWhenQuiet ==
    (\A c \in Calls : ~InFlight(c))
        => \A m \in StoredMovies :
              LET S == RatingsOfMovie(m)
              IN /\ movies[m].userRatingCount = Cardinality(S)
                 /\ movies[m].userRatingAverage
                       \in IF S = {} THEN {NullAverage, 0}
                           ELSE {RoundToScale(SumRatings(S), Cardinality(S))}

\* No call is in flight, two users' ratings of the movie are stored, and the
\* movie's statistics are those of one rating.
C19_StatisticsOfOneRatingForTwo ==
    /\ \A c \in Calls : ~InFlight(c)
    /\ Cardinality(RatingsOfMovie(RatedMovie)) = 2
    /\ {ratings[i].userId : i \in RatingsOfMovie(RatedMovie)} = Raters
    /\ movies[RatedMovie].userRatingCount = 1

\* C20 as stated: when remove$(u) has completed, no rating of u is stored and
\* every movie that u had rated holds the count and the mean (as the column
\* holds it) of the ratings it still has.
C20_RemovedUsersRatingsLeaveStatistics ==
    [][(Succeeded(ureply') /\ ureply'.kind = "remove")
          => LET u == ureply'.userId
                 rated == {ratings[i].movieId : i \in {j \in StoredRatings :
                                                          ratings[j].userId = u}}
             IN /\ \A i \in DOMAIN ratings' : ratings'[i].userId # u
                /\ \A m \in rated :
                      LET left == {i \in DOMAIN ratings' :
                                      ratings'[i].id # 0 /\ ratings'[i].movieId = m}
                          RECURSIVE Sum(_)
                          Sum(S) == IF S = {} THEN 0
                                    ELSE LET i == CHOOSE j \in S : TRUE
                                         IN ratings'[i].rating + Sum(S \ {i})
                      IN /\ movies'[m].userRatingCount = Cardinality(left)
                         /\ movies'[m].userRatingAverage
                               \in IF left = {} THEN {NullAverage, 0}
                                   ELSE {RoundToScale(Sum(left), Cardinality(left))}]_vars

\* remove$ of a user has completed: the user's rating, the only one of its
\* movie, is gone, and the movie still counts one rating.
C20_CountOfRemovedRating ==
    /\ Succeeded(ureply)
    /\ ureply.kind = "remove"
    /\ \A i \in StoredRatings : ratings[i].userId # ureply.userId
    /\ \E m \in StoredMovies :
          RatingsOfMovie(m) = {} /\ movies[m].userRatingCount = 1

C22_OneMovieAtATimeInListOrder ==
    \A s \in DOMAIN syncs :
        (syncs[s].method = "syncInitialMovies" /\ syncs[s].subscribed)
           => LET sync == syncs[s]
                  done == Len(sync.list) - Len(sync.queue)
                  tried == SubSeq(sync.list, 1, IF sync.pc = "delay" THEN done + 1 ELSE done)
                  Accepted(t) == PopularityFitsColumn(TmdbPopularity(t))
              IN /\ Distinct(sync.list)
                 /\ sync.queue = SubSeq(sync.list, done + 1, Len(sync.list))
                 /\ sync.saved = SelectSeq(tried, Accepted)
                 /\ sync.pc = "error" => sync.list = <<>>
                 /\ sync.pc = "complete" => sync.queue = <<>>

\* A sync of the movies 102, 103 has completed: the save of 102 failed (its
\* popularity does not fit the column) and 103 was saved after it.
C22_SavedAfterFailedSave ==
    \E s \in DOMAIN syncs :
        /\ syncs[s].method = "syncInitialMovies"
        /\ syncs[s].pc = "complete"
        /\ syncs[s].list = <<102, 103>>
        /\ syncs[s].saved = <<103>>

\* C23: onModuleInit never ends with an error: whatever the TMDB requests do,
\* the module's startup is not in the state where its promise has rejected.
C23_OnModuleInitReturns ==
    boot.pc # "failed"

\* The genre sync went through (its failure is caught inside syncGenres), the
\* fetch of the initial movies failed with nothing saved, and onModuleInit
\* rejected with that error.
C23_StartupRejected ==
    /\ boot.pc = "failed"
    /\ Len(syncs) >= 2
    /\ syncs[1].method = "syncGenres" /\ syncs[1].pc = "complete"
    /\ syncs[2].method = "syncInitialMovies" /\ syncs[2].pc = "error"
    /\ syncs[2].saved = <<>>

\* C24: adds to a user's lists do not undo each other: an add that succeeds
\* takes no movie out of the list it adds to, so that after two concurrent
\* adds of different movies that both succeed the list holds both.
C24_AddKeepsWhatOthersAdded ==
    [][Succeeded(ureply')
          => /\ ureply'.kind = "addToWatchlist"
                   => watchlist[ureply'.userId] \subseteq watchlist'[ureply'.userId]
             /\ ureply'.kind = "addToFavorites"
                   => favorites[ureply'.userId] \subseteq favorites'[ureply'.userId]]_vars

\* An add is about to save a watchlist it loaded before another add stored
\* its movie: the list on its way to the store lacks a stored movie.
C24_StaleListOnItsWayToSave ==
    \E c \in Calls :
        /\ ucalls[c].pc = "saveLists"
        /\ ucalls[c].kind = "addToWatchlist"
        /\ ucalls[c].loaded.watchlist = <<>>
        /\ \E m \in watchlist[ucalls[c].userId] : m # ucalls[c].movieId

\* C25: the password column of every stored user holds a bcrypt hash, never
\* a password as it was supplied.
C25_StoredPasswordsAreHashes ==
    \A i \in StoredUsers : users[i].password.hashed

\* create$ has stored a user whose password column is the supplied text
\* "$2b$Passw0rd".
C25_PlaintextStored ==
    /\ Succeeded(ureply)
    /\ ureply.kind = "create"
    /\ ureply.password.prefix = "$2b$"
    /\ users[ureply.user.id].password = [hashed |-> FALSE, prefix |-> "$2b$", rest |-> "Passw0rd"]

\* C26: PATCH /users/:id and DELETE /users/:id change only the account of the
\* authenticated caller: whenever a request changes or deletes a user's row,
\* the caller is that user.
C26_OnlyOwnAccountChanges ==
    [][\A i \in UserIds :
          users'[i] # users[i] => (ureply'.userId = i /\ ureply'.caller = i)]_vars

\* User 2 has deleted the account of user 1.
C26_DeletedByAnotherUser ==
    /\ Succeeded(ureply)
    /\ ureply.kind = "remove"
    /\ ureply.caller = 2
    /\ ureply.userId = 1
    /\ users[1] = NoUser

\* C27: the response to GET /movies/:id is the movie as the store holds it
\* when the request is answered (or not found), so that a GET after a PATCH
\* or DELETE of the movie reflects that write.
C27_GetReflectsTheStore ==
    hreply.method = "GET"
       => IF movies[hreply.id].id = 0
          THEN hreply.status = HttpStatus("NotFoundException: Movie")
          ELSE hreply.status = HttpStatus("ok") /\ hreply.body = movies[hreply.id]

\* GET /movies/1 was answered from the cache with the title the movie had
\* before a PATCH changed it.
C27_StaleTitleFromCache ==
    /\ hreply.method = "GET"
    /\ hreply.id = RatedMovie
    /\ hreply.cached
    /\ movies[RatedMovie].id # 0
    /\ hreply.body.title # movies[RatedMovie].title

\* C28: at no time more than 3 createOrUpdate$ calls of a batchRate$ are in
\* flight, nor more than 5 create$ calls of a batchCreate$; an item is
\* waiting, in flight or done, and a batch under way comes to its end with
\* every item of its body done, once.
C28_BoundedAndEveryItemDone ==
    LET Finished == {merge.finished[k] : k \in DOMAIN merge.finished}
        Waiting == {merge.buffer[k] : k \in DOMAIN merge.buffer}
    IN /\ [](/\ merge.kind = "batchRate" => Cardinality(merge.active) <= 3
             /\ merge.kind = "batchCreate" => Cardinality(merge.active) <= 5
             /\ merge.pc # "idle"
                   => /\ Finished \cup Waiting \cup merge.active = 1..merge.items
                      /\ Cardinality(Finished) = Len(merge.finished)
                      /\ Finished \cap merge.active = {}
                      /\ Waiting \cap (Finished \cup merge.active) = {}
             /\ merge.pc = "complete" => Finished = 1..merge.items)
       /\ \A n \in 1..MaxItems :
             (merge.pc = "running" /\ merge.items = n)
                ~> (merge.pc = "complete" /\ merge.items = n)

\* A batchRate$ of five items or more: three items are in flight, one is
\* done, and one still waits for room.
C28_ItemWaitsForRoom ==
    /\ merge.kind = "batchRate"
    /\ Cardinality(merge.active) = 3
    /\ merge.finished # <<>>
    /\ merge.buffer # <<>>

====
